---- MODULE Spec2Model ----
(***************************************************************************)
(* Model of the distributed job coordination subsystem of gen-audio:       *)
(* the worker pool (coordinator/pool.rs, coordinator/config.rs), the job   *)
(* scheduler (coordinator/scheduler.rs), the driver's distributed path     *)
(* (main.rs, process_distributed) and the session store                    *)
(* (session/persistence.rs, session/types.rs).                             *)
(*                                                                         *)
(* Worker names are represented by their rank in lexicographic order       *)
(* (1 < 2 < ...), job ids by the index of the chunk they were built from.  *)
(* Option<T> is a sequence: <<>> is None, <<v>> is Some(v).                *)
(***************************************************************************)
EXTENDS Naturals, Integers, Sequences, FiniteSets, TLC

VARIABLES
    workers,        \* WorkerPool.workers: Vec<Worker>, in its current order
    defaults,       \* WorkerPool.defaults: WorkerDefaults
    pending,        \* JobScheduler.pending: VecDeque<TtsJob>
    in_flight,      \* JobScheduler.in_flight: Vec<InFlightJob>
    completed,      \* JobScheduler.completed: Vec<TtsResult>
    failed,         \* JobScheduler.failed: Vec<TtsJob>
    retry_counts,   \* JobScheduler.retry_counts (an absent key reads 0)
    worker_stats,   \* JobScheduler.worker_stats: name -> completed count
    tasks,          \* spawned submissions whose result is not received yet
    pc,             \* position of the dispatcher / driver
    results,        \* the Vec<TtsResult> returned by run_to_completion
    dispatches,     \* history: number of dispatches of each job
    failResults,    \* history: failed and timeout results handled for each job
    lastHandled,    \* history: error of the latest result handled for each job
    session,        \* the driver's in-memory Session
    disk,           \* the session file sessions/<session_id>.json
    spc,            \* position inside save_session
    ridx,           \* driver: index of the next result to record
    wrongIds,       \* history: replies that carried another job_id
    sel,            \* two pools of the same workers and their last selection
    call            \* a library function called on its own: arguments, result

vars == <<workers, defaults, pending, in_flight, completed, failed,
          retry_counts, worker_stats, tasks, pc, results, dispatches,
          failResults, lastHandled, session, disk, spc, ridx,
          wrongIds, sel, call>>

schedVars == <<workers, defaults, pending, in_flight, completed, failed,
               retry_counts, worker_stats, tasks, results, dispatches,
               failResults, lastHandled, wrongIds>>

sessVars == <<session, disk, spc>>

----------------------------------------------------------------------------
(* Bounds of the model *)

NumWorkers == 2

NumJobs == 2

MaxPriority == 2

MaxLimit == 2

\* replies in one run whose job_id is not the id of the submitted job
MaxWrongIds == 1

\* selections a pool made before the one that is compared
MaxEarlier == 1

\* chunks of a session
MaxChunks == 3

\* largest chapter id of a session
MaxChapter == 1

\* files in the sessions directory
MaxFiles == 3

\* distinct updated_at instants of the records in the directory
MaxTime == 2

\* characters of a session_id
MaxIdLen == 3

\* voice files
NumHashes == 2

\* submit_job calls whose future is dropped
MaxDropped == 1

\* retry_attempts of the pool defaults
MaxRetryAttempts == 3

\* hosts a worker can be configured with
NumHosts == 2
\* iterations of the local loop that are followed for one chunk
MaxAttempts == 2

----------------------------------------------------------------------------
(* Option<T> *)

None == <<>>

Some(v) == <<v>>

unwrap_or(o, d) == IF o = None THEN d ELSE o[1]

----------------------------------------------------------------------------
(* coordinator/config.rs *)

default_retry_attempts == 3

default_max_concurrent == 1

DEFAULT_JOB_TIMEOUT_SECS == 300

\* WorkerDefaults::default, the fields the pool reads
WorkerDefaults_default ==
    [job_timeout_secs |-> DEFAULT_JOB_TIMEOUT_SECS,
     retry_attempts |-> default_retry_attempts,
     max_concurrent_jobs |-> default_max_concurrent]

\* WorkerConfig::job_timeout: the override if set, else the pool default
WorkerConfig_job_timeout(config, dflt) ==
    unwrap_or(config.job_timeout_secs, dflt.job_timeout_secs)

\* max_concurrent falling back to another field of the defaults
max_concurrent_other_default(config, dflt) ==
    unwrap_or(config.max_concurrent_jobs, dflt.retry_attempts)

\* WorkerConfig::max_concurrent: the override if set, else the pool default
max_concurrent(config, dflt) ==
    unwrap_or(config.max_concurrent_jobs, dflt.max_concurrent_jobs)

----------------------------------------------------------------------------
(* coordinator/pool.rs: Worker *)

WorkerNames == 1..NumWorkers

\* is_ready looking at the connection only
is_ready_connected_only(w) == w.connected

\* Worker::is_ready
is_ready(w) ==
    w.connected /\ unwrap_or(IF w.status = None THEN None
                                ELSE Some(w.status[1].ready), FALSE)

\* the selection order of get_available_worker: no name in the key
SelectionKeyLessNoName(a, b, counts) ==
    \/ a.priority < b.priority
    \/ /\ a.priority = b.priority
       /\ counts[a.name] < counts[b.name]

\* the selection order without the priority
SelectionKeyLessNoPriority(a, b, counts) ==
    \/ counts[a.name] < counts[b.name]
    \/ /\ counts[a.name] = counts[b.name]
       /\ a.name < b.name

\* Selection order of the pool: (priority, in_flight_count, name) ascending
SelectionKeyLess(a, b, counts) ==
    \/ a.priority < b.priority
    \/ /\ a.priority = b.priority
       /\ counts[a.name] < counts[b.name]
    \/ /\ a.priority = b.priority
       /\ counts[a.name] = counts[b.name]
       /\ a.name < b.name

\* Insertion of x into the sorted list s behind every element that does not
\* come after it (the sort is stable)
InsertStable(x, s, counts) ==
    LET p == Cardinality({i \in 1..Len(s) : ~SelectionKeyLess(x, s[i], counts)})
    IN  SubSeq(s, 1, p) \o <<x>> \o SubSeq(s, p + 1, Len(s))

RECURSIVE sort_workers(_, _)
\* self.workers sorted in place by the selection key
sort_workers(ws, counts) ==
    IF ws = <<>> THEN <<>>
    ELSE InsertStable(ws[Len(ws)],
                      sort_workers(SubSeq(ws, 1, Len(ws) - 1), counts), counts)

\* "Eligible": is_ready() and in_flight_count < effective max_concurrent
Eligible(w, dflt, counts) ==
    /\ is_ready(w)
    /\ counts[w.name] < max_concurrent(w, dflt)

\* WorkerPool::get_available_worker_with_counts: the first eligible worker
\* of the sorted list, or None
get_available_worker_with_counts(ws, dflt, counts) ==
    LET sorted == sort_workers(ws, counts)
        idx == {i \in 1..Len(sorted) : Eligible(sorted[i], dflt, counts)}
    IN  IF idx = {} THEN None
        ELSE Some(sorted[CHOOSE i \in idx : \A k \in idx : i <= k])

----------------------------------------------------------------------------
(* worker/protocol.rs *)

\* TtsResult::failure
TtsResult_failure(job_id, error) ==
    [job_id |-> job_id, status |-> "failed", error |-> Some(error)]

----------------------------------------------------------------------------
(* coordinator/scheduler.rs *)

max_retries == 3

JobIds == 1..NumJobs

\* a job_id that belongs to no enqueued job
UnknownJobId == NumJobs + 1

\* in_flight_counts: the fold over self.in_flight of run_to_completion
in_flight_counts(inf) ==
    [w \in WorkerNames |->
        Cardinality({i \in 1..Len(inf) : inf[i].worker_name = w})]

\* What a spawned submission sends: the worker's decoded reply (any status,
\* any job_id the worker wrote), or TtsResult::failure(job_id, ..) on Err.
\* The error text of a reply names the submission that produced it.
Replies(t, ids) ==
    LET text == <<t.job, t.attempt>>
    IN  {[job_id |-> id, status |-> "completed", error |-> None] : id \in ids}
        \cup {[job_id |-> id, status |-> st, error |-> Some(text)] :
                id \in ids, st \in {"failed", "timeout"}}
        \cup {TtsResult_failure(t.job, text)}

\* the job_ids a worker may write in its reply to submission t
ReplyJobIds(t) ==
    IF wrongIds < MaxWrongIds THEN JobIds \cup {UnknownJobId} ELSE {t.job}

\* run_to_completion, the check at the top of the loop: mutated form, the
\* loop is never left
all_done_never(p, inf, f) == FALSE

\* the termination check that looks at in_flight only
all_done_nothing_in_flight(p, inf, f) == inf = <<>>

\* the termination check without the jobs that await a retry
all_done_without_failed(p, inf, f) == p = <<>> /\ inf = <<>>

\* run_to_completion, "Check if we're done"
all_done(p, inf, f) == p = <<>> /\ inf = <<>> /\ f = <<>>

\* the retry test with <= in place of <
should_retry_inclusive(retry_count) == retry_count <= max_retries

\* handle_result, "Check if we should retry": the incremented count is
\* below max_retries
should_retry(retry_count) == retry_count < max_retries

\* the entry is read and left in the list
RemoveAt_keeps(s, i) == s

\* Vec::remove(idx)
RemoveAt(s, i) == SubSeq(s, 1, i - 1) \o SubSeq(s, i + 1, Len(s))

\* the termination check at the top of the loop: all three are empty
CheckDone ==
    /\ pc = "check"
    /\ all_done(pending, in_flight, failed)
    /\ results' = completed
    /\ completed' = <<>>
    /\ pc' = "persist"
    /\ UNCHANGED <<workers, defaults, pending, in_flight, failed,
                   retry_counts, worker_stats, tasks, dispatches,
                   failResults, lastHandled, session, disk,
                   spc, ridx,
                   wrongIds>>
    /\ UNCHANGED sel
    /\ UNCHANGED call

CheckContinue ==
    /\ pc = "check"
    /\ ~all_done(pending, in_flight, failed)
    /\ pc' = "dispatch"
    /\ UNCHANGED <<schedVars, sessVars, ridx>>
    /\ UNCHANGED sel
    /\ UNCHANGED call

\* WorkerPool::job_timeout
pool_job_timeout(dflt) == dflt.job_timeout_secs

\* one iteration of the dispatch loop that finds a worker
Dispatch ==
    /\ pc = "dispatch"
    /\ pending # <<>>
    /\ LET counts == in_flight_counts(in_flight)
           info == get_available_worker_with_counts(workers, defaults, counts)
           job == Head(pending)
       IN  /\ info # None
           /\ workers' = sort_workers(workers, counts)
           /\ pending' = Tail(pending)
           /\ in_flight' = Append(in_flight,
                                  [job |-> job, worker_name |-> info[1].name])
           /\ dispatches' = [dispatches EXCEPT ![job] = @ + 1]
           /\ tasks' = tasks \cup {[job |-> job, worker_name |-> info[1].name,
                                    attempt |-> dispatches[job] + 1,
                                    job_timeout |-> pool_job_timeout(defaults)]}
    /\ UNCHANGED <<defaults, completed, failed, retry_counts,
                   worker_stats, pc, results, failResults, lastHandled,
                   session, disk, spc, ridx,
                   wrongIds>>
    /\ UNCHANGED sel
    /\ UNCHANGED call

\* the dispatch loop ends: pending is empty or no worker is available
DispatchBreak ==
    /\ pc = "dispatch"
    /\ \/ /\ pending = <<>>
          /\ UNCHANGED workers
       \/ /\ pending # <<>>
          /\ get_available_worker_with_counts(
                 workers, defaults, in_flight_counts(in_flight)) = None
          /\ workers' = sort_workers(workers, in_flight_counts(in_flight))
    /\ pc' = "retry"
    /\ UNCHANGED <<defaults, pending, in_flight, completed, failed,
                   retry_counts, worker_stats, tasks, results,
                   dispatches, failResults, lastHandled,
                   session, disk, spc, ridx,
                   wrongIds>>
    /\ UNCHANGED sel
    /\ UNCHANGED call

\* the available worker the dispatcher sees with the current in_flight list
available_worker ==
    get_available_worker_with_counts(workers, defaults,
                                     in_flight_counts(in_flight))

\* the retry loop left without looking at the pool
retry_loop_ends_always(f, info) == TRUE

\* the retry loop, `while !self.failed.is_empty()` with its `break` when
\* no worker is available: TRUE when the loop is left
retry_loop_ends(f, info) == f = <<>> \/ info = None

\* the oldest failed job taken instead of the latest
retry_promote_oldest(f, p) ==
    [failed |-> Tail(f), pending |-> <<f[1]>> \o p]

\* the body of the retry loop: self.failed.pop(), self.pending.push_front
retry_promote(f, p) ==
    [failed |-> SubSeq(f, 1, Len(f) - 1), pending |-> <<f[Len(f)]>> \o p]

\* one iteration of the retry loop: failed.pop() to the front of pending
RetryPromote ==
    /\ pc = "retry"
    /\ ~retry_loop_ends(failed, available_worker)
    /\ workers' = sort_workers(workers, in_flight_counts(in_flight))
    /\ pending' = retry_promote(failed, pending).pending
    /\ failed' = retry_promote(failed, pending).failed
    /\ UNCHANGED <<defaults, in_flight, completed, retry_counts,
                   worker_stats, tasks, pc, results, dispatches,
                   failResults, lastHandled, session, disk,
                   spc, ridx,
                   wrongIds>>
    /\ UNCHANGED sel
    /\ UNCHANGED call

\* the retry loop ends: failed is empty or no worker is available
RetryBreak ==
    /\ pc = "retry"
    /\ retry_loop_ends(failed, available_worker)
    /\ workers' = IF failed = <<>> THEN workers
                  ELSE sort_workers(workers, in_flight_counts(in_flight))
    /\ pc' = "wait"
    /\ UNCHANGED <<defaults, pending, in_flight, completed, failed,
                   retry_counts, worker_stats, tasks, results,
                   dispatches, failResults, lastHandled,
                   session, disk, spc, ridx,
                   wrongIds>>
    /\ UNCHANGED sel
    /\ UNCHANGED call

\* JobScheduler::handle_result followed by on_progress(self.progress()).
\* on_result is the caller's callback; the driver's call at main.rs:529-541
\* passes the progress closure only, so nothing is recorded in the session
\* from inside run_to_completion.
handle_result(worker_name, result) ==
    LET idxs == {i \in 1..Len(in_flight) : in_flight[i].job = result.job_id}
    IN  IF idxs = {}
        THEN UNCHANGED <<in_flight, completed, failed, retry_counts,
                         worker_stats, failResults, lastHandled>>
        ELSE
          LET idx == CHOOSE i \in idxs : \A k \in idxs : i <= k
              job == in_flight[idx].job
          IN  /\ in_flight' = RemoveAt(in_flight, idx)
              /\ lastHandled' = [lastHandled EXCEPT ![job] = result.error]
              /\ IF result.status = "completed"
                 THEN /\ worker_stats' =
                            [worker_stats EXCEPT ![worker_name] = @ + 1]
                      /\ completed' = Append(completed, result)
                      /\ UNCHANGED <<failed, retry_counts, failResults>>
                 ELSE /\ retry_counts' = [retry_counts EXCEPT ![job] = @ + 1]
                      /\ failResults' = [failResults EXCEPT ![job] = @ + 1]
                      /\ IF should_retry(retry_counts[job] + 1)
                         THEN /\ failed' = Append(failed, job)
                              /\ UNCHANGED completed
                         ELSE /\ completed' = Append(completed, result)
                              /\ UNCHANGED failed
                      /\ UNCHANGED worker_stats

\* select!, rx.recv(): the dispatcher receives the (worker_name, result) sent
\* by one of the spawned submissions and handles it.  Submissions run
\* concurrently, so their messages reach the channel in any order.
Recv ==
    /\ pc = "wait"
    /\ \E t \in tasks : \E result \in Replies(t, ReplyJobIds(t)) :
          /\ handle_result(t.worker_name, result)
          /\ wrongIds' = IF result.job_id = t.job THEN wrongIds
                         ELSE wrongIds + 1
          /\ tasks' = tasks \ {t}
    /\ pc' = "check"
    /\ UNCHANGED <<workers, defaults, pending, results, dispatches,
                   session, disk, spc, ridx>>
    /\ UNCHANGED sel
    /\ UNCHANGED call

\* select!, sleep: 100 ms elapse before a result arrives
PollTimeout ==
    /\ pc = "wait"
    /\ pc' = "check"
    /\ UNCHANGED <<schedVars, sessVars, ridx>>
    /\ UNCHANGED sel
    /\ UNCHANGED call

----------------------------------------------------------------------------
(* session/types.rs, session/persistence.rs *)

\* ChunkStatus::new
ChunkStatus_new(chapter_id, chunk_id) ==
    [chapter_id |-> chapter_id, chunk_id |-> chunk_id, audio_path |-> None,
     completed |-> FALSE, error |-> None]

\* the audio path stored without the completed flag
mark_completed_path_only(c, audio_path) ==
    [c EXCEPT !.audio_path = Some(audio_path), !.error = None]

\* ChunkStatus::mark_completed
mark_completed(c, audio_path) ==
    [c EXCEPT !.audio_path = Some(audio_path), !.completed = TRUE,
              !.error = None]

\* ChunkStatus::mark_failed, mutated form: the chunk is also marked completed
mark_failed_completes(c, error) ==
    [c EXCEPT !.error = Some(error), !.completed = TRUE]

\* ChunkStatus::mark_failed
mark_failed(c, error) == [c EXCEPT !.error = Some(error)]

\* Session::new
Session_new(chunks) ==
    [total_chunks |-> Len(chunks), chunks |-> chunks, current_chapter |-> 0,
     current_chunk |-> 0, completed |-> FALSE]

\* Session::completed_count
completed_count(s) ==
    Cardinality({i \in 1..Len(s.chunks) : s.chunks[i].completed})

\* the smallest index of the set idx, or 0 if it is empty (Iterator::find)
FirstIndex(idx) ==
    IF idx = {} THEN 0 ELSE CHOOSE i \in idx : \A k \in idx : i <= k

\* get_next_chunk: the first chunk in stored order that is not completed
get_next_chunk(s) ==
    LET i == FirstIndex({k \in 1..Len(s.chunks) : ~s.chunks[k].completed})
    IN  IF i = 0 THEN None
        ELSE Some(<<s.chunks[i].chapter_id, s.chunks[i].chunk_id>>)

\* mark_chunk_complete up to (not including) its save_session call
mark_chunk_complete(s, chapter_id, chunk_id, audio_path) ==
    LET i == FirstIndex({k \in 1..Len(s.chunks) :
                            /\ s.chunks[k].chapter_id = chapter_id
                            /\ s.chunks[k].chunk_id = chunk_id})
        marked == IF i = 0 THEN s
                  ELSE [s EXCEPT !.chunks[i] = mark_completed(@, audio_path)]
        next == get_next_chunk(marked)
    IN  IF next # None
        THEN [marked EXCEPT !.current_chapter = next[1][1],
                            !.current_chunk = next[1][2]]
        ELSE [marked EXCEPT !.completed = TRUE]

\* mark_chunk_error up to (not including) its save_session call
mark_chunk_error(s, chapter_id, chunk_id, error) ==
    LET i == FirstIndex({k \in 1..Len(s.chunks) :
                            /\ s.chunks[k].chapter_id = chapter_id
                            /\ s.chunks[k].chunk_id = chunk_id})
    IN  IF i = 0 THEN s ELSE [s EXCEPT !.chunks[i] = mark_failed(@, error)]

\* The session file: absent, or the bytes written so far
NoFile == [kind |-> "absent", rec |-> None]

\* save_session, File::create: the file exists and is truncated to length 0
FileCreated == [kind |-> "empty", rec |-> None]

\* save_session, a BufWriter flush before the end of the record
FilePartial == [kind |-> "partial", rec |-> None]

\* save_session, the writer is dropped: the whole record is in the file
FileWritten(s) == [kind |-> "full", rec |-> Some(s)]

\* save_session: BufWriter writes a full buffer while serialising
SaveFlush ==
    /\ pc # "crashed"
    /\ spc = "created"
    /\ disk' = FilePartial
    /\ spc' = "writing"
    /\ UNCHANGED <<schedVars, pc, session, ridx>>
    /\ UNCHANGED sel
    /\ UNCHANGED call

\* save_session: the rest of the record is flushed when the writer is dropped
SaveClose ==
    /\ pc # "crashed"
    /\ spc \in {"created", "writing"}
    /\ disk' = FileWritten(session)
    /\ spc' = "idle"
    /\ UNCHANGED <<schedVars, pc, session, ridx>>
    /\ UNCHANGED sel
    /\ UNCHANGED call

----------------------------------------------------------------------------
(* main.rs: process_distributed *)

\* the (chapter_id, chunk_id) of the chunk job j was created from, which
\* parse_chapter_from_job_id / parse_chunk_from_job_id read from its job_id
JobChapter(j) == (j - 1) \div 2

JobChunk(j) == (j - 1) % 2

\* "Update session with results": one iteration of the loop over results
RecordResult ==
    /\ pc = "persist"
    /\ spc = "idle"
    /\ ridx <= Len(results)
    /\ LET result == results[ridx]
       IN  session' =
             IF result.status = "completed"
             THEN mark_chunk_complete(session, JobChapter(result.job_id),
                      JobChunk(result.job_id), <<"wav", result.job_id>>)
             ELSE mark_chunk_error(session, JobChapter(result.job_id),
                      JobChunk(result.job_id), unwrap_or(result.error, "Unknown error"))
    /\ disk' = FileCreated
    /\ spc' = "created"
    /\ ridx' = ridx + 1
    /\ UNCHANGED <<schedVars, pc>>
    /\ UNCHANGED sel
    /\ UNCHANGED call

\* the loop over results is over: process_distributed returns
RecordDone ==
    /\ pc = "persist"
    /\ spc = "idle"
    /\ ridx > Len(results)
    /\ pc' = "done"
    /\ UNCHANGED <<schedVars, sessVars, ridx>>
    /\ UNCHANGED sel
    /\ UNCHANGED call

----------------------------------------------------------------------------
(* The distributed run: pool connected, session created, jobs enqueued *)

\* what Worker::connect can leave behind
ConnectOutcomes ==
    {[connected |-> TRUE, status |-> Some([ready |-> TRUE])],
     [connected |-> TRUE, status |-> Some([ready |-> FALSE])],
     [connected |-> TRUE, status |-> None],
     [connected |-> FALSE, status |-> None]}

\* the workers of the run: a ready worker of any priority, with or without
\* a max_concurrent_jobs override, or a worker whose status says not ready
RunWorkers(n) ==
    {[name |-> n, priority |-> p, max_concurrent_jobs |-> m,
      connected |-> TRUE, status |-> Some([ready |-> TRUE])] :
        p \in 1..MaxPriority, m \in {None, Some(MaxLimit)}}
    \cup {[name |-> n, priority |-> 1, max_concurrent_jobs |-> None,
           connected |-> TRUE, status |-> Some([ready |-> FALSE])]}

\* the pools of NumWorkers workers, configured in descending name order
RunPools ==
    {ws \in [1..NumWorkers -> UNION {RunWorkers(n) : n \in WorkerNames}] :
        \A i \in 1..NumWorkers : ws[i].name = NumWorkers + 1 - i}

JobChunks == [j \in JobIds |-> ChunkStatus_new(JobChapter(j), JobChunk(j))]

Init ==
    /\ workers \in RunPools
    /\ \E i \in 1..NumWorkers : is_ready(workers[i])
    /\ defaults = WorkerDefaults_default
    /\ pending = [j \in JobIds |-> j]
    /\ in_flight = <<>>
    /\ completed = <<>>
    /\ failed = <<>>
    /\ retry_counts = [j \in JobIds |-> 0]
    /\ worker_stats = [w \in WorkerNames |-> 0]
    /\ tasks = {}
    /\ pc = "check"
    /\ results = <<>>
    /\ dispatches = [j \in JobIds |-> 0]
    /\ failResults = [j \in JobIds |-> 0]
    /\ lastHandled = [j \in JobIds |-> None]
    /\ session = Session_new(JobChunks)
    /\ disk = FileWritten(Session_new(JobChunks))
    /\ spc = "idle"
    /\ ridx = 1
    /\ wrongIds = 0
    /\ sel = None
    /\ call = None

Next ==
    \/ CheckDone
    \/ CheckContinue
    \/ Dispatch
    \/ DispatchBreak
    \/ RetryPromote
    \/ RetryBreak
    \/ Recv
    \/ PollTimeout
    \/ RecordResult
    \/ SaveFlush
    \/ SaveClose
    \/ RecordDone

Spec == Init /\ [][Next]_vars

----------------------------------------------------------------------------
(* Properties of the distributed run *)

\* C1: in every reachable state of run_to_completion and for every worker
\* of the pool, the number of in_flight entries whose worker_name is that
\* worker is at most its effective limit: its max_concurrent_jobs override
\* if set, otherwise the pool default.
C1_InFlightWithinLimit ==
    \A i \in 1..Len(workers) :
        Cardinality({k \in 1..Len(in_flight) :
                        in_flight[k].worker_name = workers[i].name})
          <= (IF workers[i].max_concurrent_jobs # None
              THEN workers[i].max_concurrent_jobs[1]
              ELSE defaults.max_concurrent_jobs)

\* a worker holds as many jobs as its limit allows while a job still waits
C1_Witness ==
    /\ pending # <<>>
    /\ pc = "retry"
    /\ \A i \in 1..Len(workers) :
          (workers[i].connected /\ workers[i].status = Some([ready |-> TRUE]))
          => Cardinality({k \in 1..Len(in_flight) :
                             in_flight[k].worker_name = workers[i].name})
               = (IF workers[i].max_concurrent_jobs # None
                  THEN workers[i].max_concurrent_jobs[1]
                  ELSE defaults.max_concurrent_jobs)

\* C2: every job is dispatched at most max_retries times over the whole
\* run; failed and timeout results both count against the budget, and the
\* count is never reset: retry_counts is the number of failed and timeout
\* results handled for the job so far.
C2_DispatchBudget ==
    \A j \in JobIds :
        /\ dispatches[j] <= max_retries
        /\ retry_counts[j] = failResults[j]
        /\ dispatches[j] <= retry_counts[j] + 1

\* two jobs used their whole budget, one ending on a failed result and
\* one on a timeout result
C2_Witness ==
    \E i, k \in 1..Len(completed) :
        /\ completed[i].status = "failed"
        /\ completed[k].status = "timeout"
        /\ \A j \in {completed[i].job_id, completed[k].job_id} :
              /\ dispatches[j] = max_retries
              /\ retry_counts[j] = max_retries

\* C3: when run_to_completion has returned, every enqueued job has exactly
\* one result in the returned list and no job_id appears twice; the result
\* is either a completed-status result, or the result of the attempt that
\* used up max_retries, carrying that attempt's error text.
C3_OneResultPerJob ==
    pc \in {"persist", "done"} =>
        /\ Len(results) = NumJobs
        /\ \A j \in JobIds :
              LET idx == {i \in 1..Len(results) : results[i].job_id = j}
              IN  /\ Cardinality(idx) = 1
                  /\ \A i \in idx :
                        \/ results[i].status = "completed"
                        \/ /\ results[i].status \in {"failed", "timeout"}
                           /\ failResults[j] = max_retries
                           /\ results[i].error = lastHandled[j]
                           /\ results[i].error # None

\* the run has returned with a completed job and a job that ran out of retries
C3_Witness ==
    /\ pc = "persist"
    /\ \E i, k \in 1..Len(results) :
          /\ results[i].status = "completed"
          /\ results[k].status = "timeout"
          /\ dispatches[results[k].job_id] = max_retries

\* C5: a job is dispatched to a worker of priority p only if every ready
\* worker of lower priority number already holds as many in-flight jobs as
\* its limit.  With ready workers 1 (priority 1) and 2 (priority 2) of
\* limit 1: a job goes to worker 1 whenever worker 1 holds no job (the first
\* job, and the job dispatched after worker 1's result is received), and to
\* worker 2 while worker 1's job is still in flight.
C5_PriorityBeforeLoad ==
    [][Len(in_flight') = Len(in_flight) + 1 =>
        LET to == in_flight'[Len(in_flight')].worker_name
            Held(n) == Cardinality({k \in 1..Len(in_flight) :
                                       in_flight[k].worker_name = n})
            Limit(w) == IF w.max_concurrent_jobs # None
                        THEN w.max_concurrent_jobs[1]
                        ELSE defaults.max_concurrent_jobs
            Ready(w) == w.connected /\ w.status = Some([ready |-> TRUE])
            W(n) == CHOOSE w \in {workers[i] : i \in 1..Len(workers)} :
                        w.name = n
        IN  /\ \A i \in 1..Len(workers) :
                  (Ready(workers[i]) /\ workers[i].priority < W(to).priority)
                  => Held(workers[i].name) >= Limit(workers[i])
            /\ ( /\ Len(workers) = 2
                 /\ Ready(W(1)) /\ Ready(W(2))
                 /\ W(1).priority = 1 /\ W(2).priority = 2
                 /\ Limit(W(1)) = 1 /\ Limit(W(2)) = 1 )
               => to = (IF Held(1) = 0 THEN 1 ELSE 2)
    ]_vars

\* workers 1 (priority 1) and 2 (priority 2) of limit 1: the third dispatch
\* went to worker 1 while the job given to worker 2 is still in flight
C5_Witness ==
    /\ Len(workers) = 2
    /\ \A i \in 1..2 :
          /\ workers[i].priority = workers[i].name
          /\ workers[i].max_concurrent_jobs = None
          /\ workers[i].connected
          /\ workers[i].status = Some([ready |-> TRUE])
    /\ Len(in_flight) = 2
    /\ in_flight[1].worker_name = 2
    /\ in_flight[2].worker_name = 1
    /\ dispatches[in_flight[1].job] + dispatches[in_flight[2].job] = 3

\* C7: every terminal result the dispatcher has handled is recorded in the
\* session file (the chunk is marked complete, or carries the error) by the
\* time the dispatcher is ready for the next result.
C7_RecordedWhenHandled ==
    \A i \in 1..Len(completed) :
        /\ disk.kind = "full"
        /\ \E k \in 1..Len(disk.rec[1].chunks) :
              LET c == disk.rec[1].chunks[k]
              IN  /\ c.chapter_id = JobChapter(completed[i].job_id)
                  /\ c.chunk_id = JobChunk(completed[i].job_id)
                  /\ IF completed[i].status = "completed"
                     THEN c.completed
                     ELSE c.error # None

----------------------------------------------------------------------------
(* Worker selection on its own: two pools that hold the same workers, in    *)
(* any configured order, select with the same counts snapshot               *)

\* JobScheduler::new: a scheduler with nothing enqueued, and no run
NoRun ==
    /\ workers = <<>>
    /\ defaults = WorkerDefaults_default
    /\ pending = <<>>
    /\ in_flight = <<>>
    /\ completed = <<>>
    /\ failed = <<>>
    /\ retry_counts = <<>>
    /\ worker_stats = <<>>
    /\ tasks = {}
    /\ results = <<>>
    /\ dispatches = <<>>
    /\ failResults = <<>>
    /\ lastHandled = <<>>
    /\ ridx = 1
    /\ wrongIds = 0

\* the workers a pool can hold after connect_all: any priority, with or
\* without a max_concurrent_jobs override, any outcome of connect
PoolWorkers(n) ==
    {[name |-> n, priority |-> p, max_concurrent_jobs |-> m,
      connected |-> o.connected, status |-> o.status] :
        p \in 1..MaxPriority, m \in {None, Some(MaxLimit)},
        o \in ConnectOutcomes}

\* the orders a pool can be configured in
Orders ==
    {f \in [WorkerNames -> WorkerNames] :
        \A i, k \in WorkerNames : f[i] = f[k] => i = k}

RECURSIVE Sum(_, _)
\* the sum of f over the set S
Sum(f, S) ==
    IF S = {} THEN 0
    ELSE LET x == CHOOSE y \in S : TRUE IN f[x] + Sum(f, S \ {x})

\* the counts snapshots the dispatcher can build from in_flight, which
\* holds at most one entry per enqueued job
Snapshots ==
    {c \in [WorkerNames -> 0..MaxLimit] : Sum(c, WorkerNames) <= NumJobs}

\* the name of the selected worker
SelectedName(o) == IF o = None THEN None ELSE Some(o[1].name)

InitSelect ==
    /\ NoRun
    /\ call = None
    /\ pc = "select"
    /\ session = None
    /\ disk = NoFile
    /\ spc = "idle"
    /\ \E config \in [WorkerNames ->
                        UNION {PoolWorkers(n) : n \in WorkerNames}] :
       \E a, b \in Orders :
          /\ \A n \in WorkerNames : config[n].name = n
          /\ sel = [poolA |-> [i \in WorkerNames |-> config[a[i]]],
                    poolB |-> [i \in WorkerNames |-> config[b[i]]],
                    counts |-> None, pickA |-> None, pickB |-> None,
                    differed |-> FALSE, earlier |-> 0]

\* an earlier selection in pool A: it leaves the pool's list sorted
SelectEarlierA ==
    /\ pc = "select"
    /\ sel.counts = None
    /\ sel.earlier < MaxEarlier
    /\ \E counts \in Snapshots :
          sel' = [sel EXCEPT !.poolA = sort_workers(@, counts),
                             !.earlier = @ + 1]
    /\ UNCHANGED <<schedVars, sessVars, pc, ridx>>
    /\ UNCHANGED call

\* an earlier selection in pool B
SelectEarlierB ==
    /\ pc = "select"
    /\ sel.counts = None
    /\ sel.earlier < MaxEarlier
    /\ \E counts \in Snapshots :
          sel' = [sel EXCEPT !.poolB = sort_workers(@, counts),
                             !.earlier = @ + 1]
    /\ UNCHANGED <<schedVars, sessVars, pc, ridx>>
    /\ UNCHANGED call

\* both pools select with the same counts snapshot
SelectBoth ==
    /\ pc = "select"
    /\ \E counts \in Snapshots :
          sel' = [poolA |-> sort_workers(sel.poolA, counts),
                  poolB |-> sort_workers(sel.poolB, counts),
                  counts |-> Some(counts),
                  pickA |-> SelectedName(get_available_worker_with_counts(
                                sel.poolA, defaults, counts)),
                  pickB |-> SelectedName(get_available_worker_with_counts(
                                sel.poolB, defaults, counts)),
                  differed |-> sel.poolA # sel.poolB,
                  earlier |-> sel.earlier]
    /\ UNCHANGED <<schedVars, sessVars, pc, ridx>>
    /\ UNCHANGED call

NextSelect ==
    \/ SelectEarlierA
    \/ SelectEarlierB
    \/ SelectBoth

SpecSelect == InitSelect /\ [][NextSelect]_vars

----------------------------------------------------------------------------
(* The session store on its own: a session is created for a book and its    *)
(* chunks are marked in any order; the process can stop at any point        *)

\* the (chapter_id, chunk_id) pairs a chunk can carry
ChunkIds == (0..MaxChapter) \X (0..(MaxChunks - 1))

\* process_book_chapters: chapters in ascending order starting at any
\* chapter, the chunks of a chapter numbered from 0; a chapter without text
\* has no chunk
ChunkLists ==
    {cs \in UNION {[1..n -> ChunkIds] : n \in 0..MaxChunks} :
        \A i \in 1..Len(cs) :
            IF i = 1 THEN cs[i][2] = 0
            ELSE \/ cs[i][1] = cs[i - 1][1] /\ cs[i][2] = cs[i - 1][2] + 1
                 \/ cs[i][1] > cs[i - 1][1] /\ cs[i][2] = 0}

\* the error texts a failing chunk reports
ErrorTexts == {"synthesis failed"}

InitSession ==
    /\ NoRun
    /\ sel = None
    /\ call = None
    /\ pc = "start"
    /\ session = None
    /\ disk = NoFile
    /\ spc = "idle"

\* create_session: Session::new, then save_session opens the file
CreateSession ==
    /\ pc = "start"
    /\ \E cs \in ChunkLists :
          session' = Session_new([i \in 1..Len(cs) |->
                                    ChunkStatus_new(cs[i][1], cs[i][2])])
    /\ disk' = FileCreated
    /\ spc' = "created"
    /\ pc' = "running"
    /\ UNCHANGED <<schedVars, ridx, sel>>
    /\ UNCHANGED call

\* mark_chunk_complete: the chunk is marked, the cursor moved, then
\* save_session opens the file
MarkChunkComplete ==
    /\ pc = "running"
    /\ spc = "idle"
    /\ \E id \in ChunkIds :
          session' = mark_chunk_complete(session, id[1], id[2],
                                         <<"wav", id[1], id[2]>>)
    /\ disk' = FileCreated
    /\ spc' = "created"
    /\ call' = None
    /\ UNCHANGED <<schedVars, pc, ridx, sel>>

\* mark_chunk_error: the error is stored, then save_session opens the file;
\* call keeps the arguments of the call
MarkChunkError ==
    /\ pc = "running"
    /\ spc = "idle"
    /\ \E id \in ChunkIds, e \in ErrorTexts :
          /\ session' = mark_chunk_error(session, id[1], id[2], e)
          /\ call' = [op |-> "mark_chunk_error", session |-> session,
                       chapter_id |-> id[1], chunk_id |-> id[2],
                       error |-> e]
    /\ disk' = FileCreated
    /\ spc' = "created"
    /\ UNCHANGED <<schedVars, pc, ridx, sel>>

\* the process is killed: whatever the file holds stays
Crash ==
    /\ pc = "running"
    /\ pc' = "crashed"
    /\ UNCHANGED <<schedVars, sessVars, ridx, sel>>
    /\ UNCHANGED call

NextSession ==
    \/ CreateSession
    \/ MarkChunkComplete
    \/ MarkChunkError
    \/ SaveFlush
    \/ SaveClose
    \/ Crash

SpecSession == InitSession /\ [][NextSession]_vars

\* C8: the session file on disk always holds a complete session record,
\* the previous one or the new one, never an empty or partial one, also
\* when the process is killed in the middle of save_session.
C8_FileNeverTorn ==
    disk.kind \in {"absent", "full"}

\* C9: in every persisted session record, completed is true if and only if
\* every chunk of the session has completed true.
C9_CompletedIffAllChunks ==
    disk.kind = "full" =>
        LET s == disk.rec[1]
        IN  s.completed <=> (\A i \in 1..Len(s.chunks) : s.chunks[i].completed)

\* C10: in every persisted session record, the cursor (current_chapter,
\* current_chunk) is the first chunk in stored order that is not completed,
\* if there is one, and the last chunk otherwise.
C10_CursorAtFirstIncomplete ==
    (disk.kind = "full" /\ disk.rec[1].chunks # <<>>) =>
        LET s == disk.rec[1]
            open == {i \in 1..Len(s.chunks) : ~s.chunks[i].completed}
            at == IF open = {} THEN Len(s.chunks)
                  ELSE CHOOSE i \in open : \A k \in open : i <= k
        IN  /\ s.current_chapter = s.chunks[at].chapter_id
            /\ s.current_chunk = s.chunks[at].chunk_id

\* C11: after any sequence of mark_chunk_complete and mark_chunk_error calls
\* on a session, every chunk whose completed flag is true has an audio_path
\* set and has no error set.
C11_CompletedHasAudioNoError ==
    (pc \in {"running", "crashed"} /\ session # None) =>
        \A i \in 1..Len(session.chunks) :
            session.chunks[i].completed =>
                /\ session.chunks[i].audio_path # None
                /\ session.chunks[i].error = None

\* C26: mark_chunk_error(session, chapter, chunk, error) on a chunk of the
\* session that is not completed stores the error on that chunk and leaves
\* its completed flag false and its audio path as it was; the other chunks,
\* the cursor, the session's completed flag and completed_count are
\* unchanged, and if the chunk was the one get_next_chunk returned, it still
\* is.
C26_MarkErrorFrame ==
    (call # None /\ call.op = "mark_chunk_error") =>
        LET b == call.session
            i == FirstIndex({k \in 1..Len(b.chunks) :
                                /\ b.chunks[k].chapter_id = call.chapter_id
                                /\ b.chunks[k].chunk_id = call.chunk_id})
        IN  (i # 0 /\ ~b.chunks[i].completed) =>
                /\ Len(session.chunks) = Len(b.chunks)
                /\ session.chunks[i] =
                      [b.chunks[i] EXCEPT !.error = Some(call.error)]
                /\ ~session.chunks[i].completed
                /\ \A k \in 1..Len(b.chunks) :
                      k # i => session.chunks[k] = b.chunks[k]
                /\ session.current_chapter = b.current_chapter
                /\ session.current_chunk = b.current_chunk
                /\ session.completed = b.completed
                /\ session.total_chunks = b.total_chunks
                /\ completed_count(session) = completed_count(b)
                /\ get_next_chunk(session) = get_next_chunk(b)

\* mark_chunk_error on the first incomplete chunk of a session in which an
\* earlier chunk is completed
C26_Witness ==
    /\ call # None
    /\ call.op = "mark_chunk_error"
    /\ get_next_chunk(call.session) =
          Some(<<call.chapter_id, call.chunk_id>>)
    /\ completed_count(call.session) > 0
    /\ get_next_chunk(session) = Some(<<call.chapter_id, call.chunk_id>>)

----------------------------------------------------------------------------
(* Library functions called on their own, on any input                      *)

\* what read_dir can list: a parsable <id>.json record of this book or of
\* another one, a .json file that does not parse, a .json file that cannot
\* be opened, a file of another kind
DirEntries ==
    {[kind |-> "record", same_book |-> b, completed |-> c, updated_at |-> t] :
        b \in BOOLEAN, c \in BOOLEAN, t \in 1..MaxTime}
    \cup {[kind |-> "unparsable", same_book |-> FALSE, completed |-> FALSE,
           updated_at |-> 1],
          [kind |-> "unopenable", same_book |-> FALSE, completed |-> FALSE,
           updated_at |-> 1],
          [kind |-> "not_json", same_book |-> TRUE, completed |-> FALSE,
           updated_at |-> 1]}

\* the sessions directory, in the order read_dir lists it
Dirs == UNION {[1..n -> DirEntries] : n \in 0..MaxFiles}

\* the comparison of the sort with its arguments in the other order
older_first(a, b) == a.updated_at < b.updated_at

\* find_session_for_book, the comparison of the sort: b.updated_at.cmp(a)
newer_first(a, b) == a.updated_at > b.updated_at

\* find_session_for_book: the index in dir of the session it returns, None
\* if no record matches
find_session_for_book(dir) ==
    LET matching == {i \in 1..Len(dir) : /\ dir[i].kind = "record"
                                          /\ dir[i].same_book
                                          /\ ~dir[i].completed}
        \* the stable sort leaves in front the first record that none precedes
        front == {i \in matching :
                    \A k \in matching :
                        /\ ~newer_first(dir[k], dir[i])
                        /\ (k < i => newer_first(dir[i], dir[k]))}
    IN  IF matching = {} THEN None ELSE Some(CHOOSE i \in front : TRUE)

\* the loop body with `?` on File::open and on the parse: a .json file that
\* cannot be opened or parsed ends the discovery with an error
scan_entry_strict(e) ==
    IF e.kind \in {"unparsable", "unopenable"} THEN "fail"
    ELSE IF e.kind = "record" /\ e.same_book /\ ~e.completed THEN "push"
    ELSE "skip"

\* find_session_for_book, the loop body on one listed file: the session is
\* pushed to matching_sessions, or the file is passed over
scan_entry(e) ==
    IF e.kind = "record" /\ e.same_book /\ ~e.completed THEN "push"
    ELSE "skip"

\* find_session_for_book as a Result: Err if the loop ended with an error
find_session_result(dir) ==
    IF \E i \in 1..Len(dir) : scan_entry(dir[i]) = "fail"
    THEN [ok |-> FALSE, ret |-> None]
    ELSE [ok |-> TRUE, ret |-> find_session_for_book(dir)]

InitCalls ==
    /\ NoRun
    /\ sel = None
    /\ call = None
    /\ pc = "calls"
    /\ session = None
    /\ disk = NoFile
    /\ spc = "idle"

\* find_session_for_book(path) on any sessions directory
FindSessionForBook ==
    /\ pc = "calls"
    /\ call = None
    /\ \E dir \in Dirs :
          call' = [op |-> "find_session_for_book", dir |-> dir,
                   ok |-> find_session_result(dir).ok,
                   ret |-> find_session_result(dir).ret]
    /\ UNCHANGED <<schedVars, sessVars, pc, ridx, sel>>

\* C12: find_session_for_book(path) returns a session if and only if the
\* sessions directory holds a record whose book hash is the hash of path and
\* whose completed flag is false; of several such records it returns one
\* that none of the others was updated after.
C12_FindsLatestIncomplete ==
    (call # None /\ call.op = "find_session_for_book") =>
        LET dir == call.dir
            Q == {i \in 1..Len(dir) : /\ dir[i].kind = "record"
                                       /\ dir[i].same_book
                                       /\ ~dir[i].completed}
        IN  /\ (call.ret # None) <=> (Q # {})
            /\ call.ret # None =>
                  /\ call.ret[1] \in Q
                  /\ \A k \in Q : dir[k].updated_at <= dir[call.ret[1]].updated_at

\* the directory lists an older incomplete record of the book before the
\* newer one that is returned, next to a completed record of the book
C12_Witness ==
    /\ call # None
    /\ call.op = "find_session_for_book"
    /\ call.ret # None
    /\ \E i, k \in 1..Len(call.dir) :
          /\ i < call.ret[1]
          /\ call.dir[i].kind = "record" /\ call.dir[i].same_book
          /\ ~call.dir[i].completed
          /\ call.dir[i].updated_at < call.dir[call.ret[1]].updated_at
          /\ call.dir[k].kind = "record" /\ call.dir[k].same_book
          /\ call.dir[k].completed

\* C27: when the sessions directory holds a .json file that cannot be opened
\* or parsed, find_session_for_book does not fail, and it returns a record
\* of the book that is not completed if the other files hold one, and no
\* session otherwise.
C27_CorruptFilesSkipped ==
    (call # None /\ call.op = "find_session_for_book"
        /\ \E i \in 1..Len(call.dir) :
              call.dir[i].kind \in {"unparsable", "unopenable"}) =>
        LET dir == call.dir
            good == {i \in 1..Len(dir) : /\ dir[i].kind = "record"
                                          /\ dir[i].same_book
                                          /\ ~dir[i].completed}
        IN  /\ call.ok
            /\ (good # {}) => (call.ret # None /\ call.ret[1] \in good)
            /\ (good = {}) => call.ret = None

\* a directory in which a file that does not parse and a file that cannot
\* be opened are listed before the record that is returned
C27_Witness ==
    /\ call # None
    /\ call.op = "find_session_for_book"
    /\ call.ret # None
    /\ \E i, k \in 1..Len(call.dir) :
          /\ i < call.ret[1]
          /\ k < call.ret[1]
          /\ call.dir[i].kind = "unparsable"
          /\ call.dir[k].kind = "unopenable"

\* the chunk lists a Session value can store: distinct chunks in any order,
\* each one pending, failed or completed with the path of its audio file
StoredChunks ==
    {cs \in UNION {[1..n -> [id : ChunkIds, completed : BOOLEAN]] :
                      n \in 0..MaxChunks} :
        \A i, k \in 1..Len(cs) : cs[i].id = cs[k].id => i = k}

\* the ChunkStatus of a stored chunk
StoredStatus(c) ==
    IF c.completed
    THEN mark_completed(ChunkStatus_new(c.id[1], c.id[2]),
                        <<"wav", c.id[1], c.id[2]>>)
    ELSE ChunkStatus_new(c.id[1], c.id[2])

\* a sort key that does not tell the chunks of a chapter apart
chapter_key(c) == c.chapter_id

\* get_chapter_audio_files, the key of sort_by_key
chunk_key(c) == c.chunk_id

RECURSIVE sort_by_chunk_key(_)
\* Vec::sort_by_key: a stable sort, the last element inserted behind every
\* element whose key is not larger
sort_by_chunk_key(cs) ==
    IF cs = <<>> THEN <<>>
    ELSE LET x == cs[Len(cs)]
             s == sort_by_chunk_key(SubSeq(cs, 1, Len(cs) - 1))
             p == Cardinality({i \in 1..Len(s) :
                                  chunk_key(s[i]) <= chunk_key(x)})
         IN  SubSeq(s, 1, p) \o <<x>> \o SubSeq(s, p + 1, Len(s))

\* get_chapter_audio_files
get_chapter_audio_files(s, chapter_id) ==
    LET Keep(c) == /\ c.chapter_id = chapter_id
                   /\ c.completed
                   /\ c.audio_path # None
        sorted == sort_by_chunk_key(SelectSeq(s.chunks, Keep))
    IN  [i \in 1..Len(sorted) |-> sorted[i].audio_path[1]]

\* get_chapter_audio_files(session, chapter) on any stored session
GetChapterAudioFiles ==
    /\ pc = "calls"
    /\ call = None
    /\ \E cs \in StoredChunks, chapter_id \in 0..MaxChapter :
          LET s == Session_new([i \in 1..Len(cs) |-> StoredStatus(cs[i])])
          IN  call' = [op |-> "get_chapter_audio_files", session |-> s,
                       chapter_id |-> chapter_id,
                       ret |-> get_chapter_audio_files(s, chapter_id)]
    /\ UNCHANGED <<schedVars, sessVars, pc, ridx, sel>>

\* C14: get_chapter_audio_files(session, chapter) returns exactly the audio
\* paths of the chunks of that chapter whose completed flag is true, in
\* ascending chunk_id order, whatever the order the chunks are stored in;
\* incomplete chunks and chunks of other chapters are left out.
C14_ChapterAudioInChunkOrder ==
    (call # None /\ call.op = "get_chapter_audio_files") =>
        LET cs == call.session.chunks
            want == {i \in 1..Len(cs) : /\ cs[i].chapter_id = call.chapter_id
                                         /\ cs[i].completed}
        IN  /\ Len(call.ret) = Cardinality(want)
            /\ {call.ret[i] : i \in 1..Len(call.ret)}
                 = {cs[i].audio_path[1] : i \in want}
            /\ \A i, k \in 1..Len(call.ret) :
                  i < k => \E a, b \in want :
                              /\ cs[a].audio_path[1] = call.ret[i]
                              /\ cs[b].audio_path[1] = call.ret[k]
                              /\ cs[a].chunk_id < cs[b].chunk_id

\* two completed chunks of the chapter are stored in descending chunk_id
\* order, next to a completed chunk of another chapter
C14_Witness ==
    /\ call # None
    /\ call.op = "get_chapter_audio_files"
    /\ Len(call.ret) = 2
    /\ \E i, k, n \in 1..Len(call.session.chunks) :
          LET cs == call.session.chunks
          IN  /\ i < k
              /\ cs[i].chapter_id = call.chapter_id /\ cs[i].completed
              /\ cs[k].chapter_id = call.chapter_id /\ cs[k].completed
              /\ cs[i].chunk_id > cs[k].chunk_id
              /\ cs[n].chapter_id # call.chapter_id /\ cs[n].completed

\* the characters of a session_id: letters, digits and the separator
IdChars == {"c", "h", "k", "a", "7", "_"}

\* the session_id strings given to TtsJob::new
SessionIds == UNION {[1..n -> IdChars] : n \in 0..MaxIdLen}

\* chapter and chunk numbers, below and above the padded widths
IdNumbers == {0, 7, 42, 999, 1000, 12345}

DecimalDigits == <<"0", "1", "2", "3", "4", "5", "6", "7", "8", "9">>

RECURSIVE to_decimal(_)
\* Display for usize: the decimal digits of n
to_decimal(n) ==
    IF n < 10 THEN <<DecimalDigits[n + 1]>>
    ELSE to_decimal(n \div 10) \o <<DecimalDigits[(n % 10) + 1]>>

RECURSIVE zero_pad(_, _)
\* the format width {:0w}: zeros in front up to w characters, never cut
zero_pad(s, w) == IF Len(s) >= w THEN s ELSE zero_pad(<<"0">> \o s, w)

\* TtsJob::new: format!("{}_ch{:03}_ck{:04}", session_id, chapter_id, chunk_id)
TtsJob_new_job_id(session_id, chapter_id, chunk_id) ==
    session_id \o <<"_", "c", "h">> \o zero_pad(to_decimal(chapter_id), 3)
               \o <<"_", "c", "k">> \o zero_pad(to_decimal(chunk_id), 4)

RECURSIVE split_underscore(_)
\* str::split('_'): the parts between the separators, empty parts included
split_underscore(s) ==
    LET idx == {i \in 1..Len(s) : s[i] = "_"}
    IN  IF idx = {} THEN <<s>>
        ELSE LET i == CHOOSE k \in idx : \A m \in idx : k <= m
             IN  <<SubSeq(s, 1, i - 1)>>
                   \o split_underscore(SubSeq(s, i + 1, Len(s)))

RECURSIVE decimal_value(_)
\* the number written by a string of decimal digits
decimal_value(s) ==
    IF s = <<>> THEN 0
    ELSE 10 * decimal_value(SubSeq(s, 1, Len(s) - 1))
         + ((CHOOSE d \in 1..10 : DecimalDigits[d] = s[Len(s)]) - 1)

\* str::parse::<usize>().ok(): Some(n) for a non-empty string of digits
parse_usize(s) ==
    IF s # <<>> /\ \A i \in 1..Len(s) : \E d \in 1..10 : DecimalDigits[d] = s[i]
    THEN Some(decimal_value(s))
    ELSE None

\* the loop of parse_chapter_from_job_id / parse_chunk_from_job_id: the
\* first part that starts with the two-letter tag decides
parse_tagged(job_id, tag) ==
    LET parts == split_underscore(job_id)
        idx == {i \in 1..Len(parts) : /\ Len(parts[i]) >= 2
                                       /\ SubSeq(parts[i], 1, 2) = tag}
    IN  IF idx = {} THEN None
        ELSE LET i == CHOOSE k \in idx : \A m \in idx : k <= m
             IN  parse_usize(SubSeq(parts[i], 3, Len(parts[i])))

\* parse_chapter_from_job_id
parse_chapter_from_job_id(job_id) == parse_tagged(job_id, <<"c", "h">>)

\* parse_chunk_from_job_id
parse_chunk_from_job_id(job_id) == parse_tagged(job_id, <<"c", "k">>)

\* a job is built by TtsJob::new and its job_id is parsed back
ParseJobId ==
    /\ pc = "calls"
    /\ call = None
    /\ \E session_id \in SessionIds, chapter_id, chunk_id \in IdNumbers :
          LET job_id == TtsJob_new_job_id(session_id, chapter_id, chunk_id)
          IN  call' = [op |-> "parse_job_id", session_id |-> session_id,
                       chapter_id |-> chapter_id, chunk_id |-> chunk_id,
                       ret |-> <<parse_chapter_from_job_id(job_id),
                                 parse_chunk_from_job_id(job_id)>>]
    /\ UNCHANGED <<schedVars, sessVars, pc, ridx, sel>>

\* serde_json of a ChunkStatus: the fields in declaration order, None
\* written as null
chunk_to_json(c) ==
    <<<<"chapter_id", c.chapter_id>>, <<"chunk_id", c.chunk_id>>,
      <<"audio_path", IF c.audio_path = None THEN <<"null">>
                      ELSE <<"string", c.audio_path[1]>>>>,
      <<"completed", c.completed>>,
      <<"error", IF c.error = None THEN <<"null">>
                 ELSE <<"string", c.error[1]>>>>>>

\* the value of the field key of a JSON object
json_field(doc, key) ==
    doc[CHOOSE i \in 1..Len(doc) : doc[i][1] = key][2]

\* an Option read from JSON: null is None
json_option(v) == IF v[1] = "null" THEN None ELSE Some(v[2])

\* serde_json back to a ChunkStatus
chunk_from_json(doc) ==
    [chapter_id |-> json_field(doc, "chapter_id"),
     chunk_id |-> json_field(doc, "chunk_id"),
     audio_path |-> json_option(json_field(doc, "audio_path")),
     completed |-> json_field(doc, "completed"),
     error |-> json_option(json_field(doc, "error"))]

\* serde_json::to_writer_pretty of a Session: the fields of the model in
\* declaration order, the chunks as an array in stored order
session_to_json(s) ==
    <<<<"total_chunks", s.total_chunks>>,
      <<"chunks", [i \in 1..Len(s.chunks) |-> chunk_to_json(s.chunks[i])]>>,
      <<"current_chapter", s.current_chapter>>,
      <<"current_chunk", s.current_chunk>>,
      <<"updated_at", s.updated_at>>,
      <<"completed", s.completed>>>>

\* serde_json::from_reader::<_, Session>
session_from_json(doc) ==
    LET chunks == json_field(doc, "chunks")
    IN  [total_chunks |-> json_field(doc, "total_chunks"),
         chunks |-> [i \in 1..Len(chunks) |-> chunk_from_json(chunks[i])],
         current_chapter |-> json_field(doc, "current_chapter"),
         current_chunk |-> json_field(doc, "current_chunk"),
         updated_at |-> json_field(doc, "updated_at"),
         completed |-> json_field(doc, "completed")]

\* save_session at time now: the content of the session file
save_session(s, now) == session_to_json([s EXCEPT !.updated_at = now])

\* the sessions save_session is called on: the chunks in the order
\* create_session stored them, each one pending, failed or completed, the
\* session last updated at any time
SavedSessions ==
    {[total_chunks |-> Len(cs),
      chunks |-> [i \in 1..Len(cs) |->
                    IF st[i] = "completed"
                    THEN mark_completed(ChunkStatus_new(cs[i][1], cs[i][2]),
                                        <<"wav", cs[i][1], cs[i][2]>>)
                    ELSE IF st[i] = "failed"
                    THEN mark_failed(ChunkStatus_new(cs[i][1], cs[i][2]),
                                     "synthesis failed")
                    ELSE ChunkStatus_new(cs[i][1], cs[i][2])],
      current_chapter |-> 0, current_chunk |-> 0,
      updated_at |-> t,
      completed |-> (\A i \in 1..Len(cs) : st[i] = "completed")] :
        cs \in ChunkLists, t \in 1..MaxTime,
        st \in [1..MaxChunks -> {"pending", "failed", "completed"}]}

\* save_session(session) at a time not before the session's updated_at,
\* then the file read back as find_session_for_book reads it
SaveAndReadBack ==
    /\ pc = "calls"
    /\ call = None
    /\ \E s \in SavedSessions : \E now \in s.updated_at..MaxTime :
          call' = [op |-> "save_session", session |-> s, now |-> now,
                   ret |-> session_from_json(save_session(s, now))]
    /\ UNCHANGED <<schedVars, sessVars, pc, ridx, sel>>

NextCalls ==
    \/ FindSessionForBook
    \/ GetChapterAudioFiles
    \/ ParseJobId
    \/ SaveAndReadBack

SpecCalls == InitCalls /\ [][NextCalls]_vars

\* C15: for every session_id, chapter and chunk, parsing the chapter and the
\* chunk back out of the job_id built by TtsJob::new(session_id, chapter,
\* chunk) returns (chapter, chunk).
C15_JobIdRoundTrip ==
    (call # None /\ call.op = "parse_job_id") =>
        call.ret = <<Some(call.chapter_id), Some(call.chunk_id)>>

\* C28: the session read back from the file that save_session wrote is
\* equal to the session that was saved, in every field and with the chunks
\* in the same order.
C28_SaveReadBackEqual ==
    (call # None /\ call.op = "save_session") => call.ret = call.session

----------------------------------------------------------------------------
(* A distributed run that resumes the session an earlier run left on disk   *)

\* the filter that keeps every chunk
already_completed_never(s, chapter_id, chunk_id) == FALSE

\* process_distributed, first filter of "Get pending chunks": the session
\* has a completed status for the chunk
already_completed(s, chapter_id, chunk_id) ==
    \E i \in 1..Len(s.chunks) :
        /\ s.chunks[i].chapter_id = chapter_id
        /\ s.chunks[i].chunk_id = chunk_id
        /\ s.chunks[i].completed

\* process_distributed, "Get pending chunks" and create_jobs: the jobs of
\* the chunks that are not completed in the session and have text
pending_chunks(s, chunks) ==
    LET Keep(j) == /\ ~already_completed(s, JobChapter(j), JobChunk(j))
                   /\ ~chunks[j].empty
    IN  SelectSeq([j \in 1..Len(chunks) |-> j], Keep)

\* the records an interrupted run leaves behind: some chunks completed,
\* some with an error, the record's completed flag false
ResumableSessions ==
    {[Session_new([j \in JobIds |-> st[j]]) EXCEPT
         !.current_chapter = JobChapter(nx), !.current_chunk = JobChunk(nx)] :
        st \in [JobIds ->
                  UNION {{ChunkStatus_new(JobChapter(j), JobChunk(j)),
                          mark_failed(ChunkStatus_new(JobChapter(j), JobChunk(j)),
                                      "synthesis failed"),
                          mark_completed(ChunkStatus_new(JobChapter(j), JobChunk(j)),
                                         <<"wav", j>>)} : j \in JobIds}],
        nx \in JobIds}

InitResume ==
    /\ workers \in RunPools
    /\ \A i \in 1..NumWorkers :
          is_ready(workers[i]) /\ workers[i].max_concurrent_jobs = None
    /\ defaults = WorkerDefaults_default
    /\ pending = <<>>
    /\ in_flight = <<>>
    /\ completed = <<>>
    /\ failed = <<>>
    /\ retry_counts = [j \in JobIds |-> 0]
    /\ worker_stats = [w \in WorkerNames |-> 0]
    /\ tasks = {}
    /\ pc = "resume"
    /\ results = <<>>
    /\ dispatches = [j \in JobIds |-> 0]
    /\ failResults = [j \in JobIds |-> 0]
    /\ lastHandled = [j \in JobIds |-> None]
    /\ session = None
    /\ \E s \in ResumableSessions :
          /\ \A j \in JobIds : /\ s.chunks[j].chapter_id = JobChapter(j)
                               /\ s.chunks[j].chunk_id = JobChunk(j)
          /\ get_next_chunk(s) =
                Some(<<s.current_chapter, s.current_chunk>>)
          /\ disk = FileWritten(s)
    /\ spc = "idle"
    /\ ridx = 1
    /\ wrongIds = 0
    /\ sel = None
    /\ \E chunks \in [JobIds -> [empty : BOOLEAN]] :
          call = [op |-> "resume", chunks |-> chunks, found |-> None]

\* main: find_session_for_book returns the record on disk, the chunks are
\* rebuilt from the book; process_distributed enqueues the pending ones
ResumeSession ==
    /\ pc = "resume"
    /\ disk.kind = "full"
    /\ session' = disk.rec[1]
    /\ pending' = pending_chunks(disk.rec[1], call.chunks)
    /\ pc' = IF pending' = <<>> THEN "done" ELSE "check"
    /\ call' = [call EXCEPT !.found = disk.rec]
    /\ UNCHANGED <<workers, defaults, in_flight, completed, failed,
                   retry_counts, worker_stats, tasks, results, dispatches,
                   failResults, lastHandled, disk, spc, ridx, wrongIds, sel>>

NextResume ==
    \/ ResumeSession
    \/ CheckDone
    \/ CheckContinue
    \/ Dispatch
    \/ DispatchBreak
    \/ RetryPromote
    \/ RetryBreak
    \/ Recv
    \/ PollTimeout
    \/ RecordResult
    \/ SaveFlush
    \/ SaveClose
    \/ RecordDone

SpecResume == InitResume /\ [][NextResume]_vars

\* C13: when a run resumes a session, a job is created and dispatched only
\* for chunks whose status in the session found on disk is not completed: no
\* chunk already marked complete is dispatched again.
C13_ResumeSkipsCompleted ==
    (call # None /\ call.op = "resume" /\ call.found # None) =>
        \A j \in JobIds :
            (\/ dispatches[j] > 0
             \/ \E i \in 1..Len(pending) : pending[i] = j)
            => ~call.found[1].chunks[j].completed

\* the resumed run is over: the chunk that was complete on disk was never
\* dispatched, the other one was dispatched and is complete now
C13_Witness ==
    /\ call # None
    /\ call.op = "resume"
    /\ call.found # None
    /\ pc = "done"
    /\ \E j, k \in JobIds :
          /\ call.found[1].chunks[j].completed
          /\ dispatches[j] = 0
          /\ ~call.found[1].chunks[k].completed
          /\ dispatches[k] > 0
          /\ disk.kind = "full"
          /\ disk.rec[1].chunks[k].completed

----------------------------------------------------------------------------
(* A distributed run in which submissions fail at the transport: the        *)
(* connection breaks, or the deadline of the submission expires             *)

\* Worker::execute_job, of which execute_job_standalone is the variant
\* that takes the worker's config instead of the worker: an error of
\* exec_with_input (connection broken, or "SSH command timed out" when the
\* deadline expires) is handed on with its context, and so is an output
\* that is not a TtsResult; TRUE is the Err variant
execute_job_is_err(cause) ==
    cause \in {"transport", "deadline", "undecodable"}

\* the spawned task: Err(e) becomes TtsResult::failure(&job_id, e)
spawned_result(job_id, cause, text) ==
    IF execute_job_is_err(cause)
    THEN TtsResult_failure(job_id, text)
    ELSE [job_id |-> job_id, status |-> "completed", error |-> None]

InitFaults ==
    /\ workers \in RunPools
    /\ \E i \in 1..NumWorkers : is_ready(workers[i])
    /\ \A i \in 1..NumWorkers : workers[i].max_concurrent_jobs = None
    /\ defaults = WorkerDefaults_default
    /\ pending = [j \in JobIds |-> j]
    /\ in_flight = <<>>
    /\ completed = <<>>
    /\ failed = <<>>
    /\ retry_counts = [j \in JobIds |-> 0]
    /\ worker_stats = [w \in WorkerNames |-> 0]
    /\ tasks = {}
    /\ pc = "check"
    /\ results = <<>>
    /\ dispatches = [j \in JobIds |-> 0]
    /\ failResults = [j \in JobIds |-> 0]
    /\ lastHandled = [j \in JobIds |-> None]
    /\ session = Session_new(JobChunks)
    /\ disk = FileWritten(Session_new(JobChunks))
    /\ spc = "idle"
    /\ ridx = 1
    /\ wrongIds = 0
    /\ sel = None
    /\ call = [op |-> "faults", transport |-> {}, deadline |-> None,
               undecodable |-> None]

\* select!, rx.recv(): the submission that arrives ended at the transport,
\* on a broken connection or on its deadline, or with a reply that is not
\* a TtsResult
RecvFault ==
    /\ pc = "wait"
    /\ \E t \in tasks, cause \in {"transport", "deadline", "undecodable"} :
          LET result == spawned_result(t.job, cause, <<t.job, t.attempt>>)
              handled ==
                  [job |-> t.job, status |-> result.status,
                   matched |-> \E i \in 1..Len(in_flight) :
                                  in_flight[i].job = t.job,
                   before |-> retry_counts[t.job],
                   after |-> retry_counts'[t.job],
                   requeued |-> \E i \in 1..Len(failed') :
                                   failed'[i] = t.job,
                   terminal |-> \E i \in 1..Len(completed') :
                                   completed'[i] = result]
          IN  /\ handle_result(t.worker_name, result)
              /\ tasks' = tasks \ {t}
              /\ call' =
                   IF cause = "transport"
                   THEN [call EXCEPT !.transport = @ \cup {t.worker_name}]
                   ELSE IF cause = "deadline"
                   THEN [call EXCEPT !.deadline = Some(handled)]
                   ELSE [call EXCEPT !.undecodable = Some(handled)]
    /\ pc' = "check"
    /\ UNCHANGED <<workers, defaults, pending, results, dispatches,
                   session, disk, spc, ridx, wrongIds, sel>>

NextFaults ==
    \/ RecvFault
    \/ CheckDone
    \/ CheckContinue
    \/ Dispatch
    \/ DispatchBreak
    \/ RetryPromote
    \/ RetryBreak
    \/ Recv
    \/ PollTimeout
    \/ RecordResult
    \/ SaveFlush
    \/ SaveClose
    \/ RecordDone

SpecFaults == InitFaults /\ [][NextFaults]_vars

\* C16: when a transport failure occurs against a worker, at connect time or
\* during a job submission, that worker is marked not-ready (and so is not
\* selected for any further dispatch).
C16_TransportFailureMarksNotReady ==
    (call # None /\ call.op = "faults") =>
        \A i \in 1..Len(workers) :
            workers[i].name \in call.transport =>
                ~is_ready(workers[i])

\* C20: when the deadline of a job submission expires, the scheduler
\* receives for that job a result whose status is timeout, not failed, and
\* handles it as it handles a failed result: if the job is in flight, the
\* retry count goes up by one, and the job is queued for a retry if the
\* count is below max_retries and is terminal with that result otherwise.
C20_DeadlineIsTimeoutResult ==
    (call # None /\ call.op = "faults" /\ call.deadline # None) =>
        LET d == call.deadline[1]
        IN  /\ d.status = "timeout"
            /\ d.matched =>
                  /\ d.after = d.before + 1
                  /\ d.requeued <=> (d.after < max_retries)
                  /\ d.terminal <=> (d.after >= max_retries)

\* C21: when the reply of a worker to a job cannot be decoded as a
\* TtsResult, the job, if it is in flight, is terminal at once: its error
\* result is in completed and the job is not queued for a retry, whatever
\* its retry count.
C21_UndecodableIsTerminal ==
    (call # None /\ call.op = "faults" /\ call.undecodable # None) =>
        LET d == call.undecodable[1]
        IN  d.matched => (d.terminal /\ ~d.requeued)

----------------------------------------------------------------------------
(* coordinator/pool.rs: Worker::connect, Worker::submit_job and
   WorkerPool::ensure_voice_ref on a pool built by WorkerPool::new.  The
   fields of the pool that the scheduling model leaves out (active_jobs of
   each worker, uploaded_voices) and the voice files on the remotes are
   kept in call, together with a record of the last call. *)

\* Worker::new: not connected, no status
Worker_new(n) ==
    [name |-> n, priority |-> 1, max_concurrent_jobs |-> None,
     connected |-> FALSE, status |-> None]

\* the hashes of the voice files
Hashes == 1..NumHashes

\* what the status probe of connect can give: exec fails, the output is not
\* a WorkerStatus, or a status with ready true or false
ProbeOutcomes == {"exec_failed", "undecodable", "ready", "not_ready"}

\* Worker::connect; test_ok is the outcome of test_connection
connect(w, test_ok, probe) ==
    IF ~test_ok
    THEN [worker |-> w, ok |-> FALSE]
    ELSE LET c == [w EXCEPT !.connected = TRUE]
         IN  IF probe \in {"exec_failed", "undecodable"}
             THEN [worker |-> c, ok |-> FALSE]
             ELSE [worker |-> [c EXCEPT !.status =
                                   Some([ready |-> probe = "ready"])],
                   ok |-> TRUE]

\* what execute_job can end with inside submit_job
SubmitOutcomes == {"decoded", "transport", "deadline", "undecodable"}

\* submit_job, self.active_jobs.remove(&job_id): mutated form, the id is
\* removed only after a decoded result
release_if_ok(active_jobs, job_id, ok) ==
    IF ok THEN active_jobs \ {job_id} ELSE active_jobs

\* submit_job, self.active_jobs.remove(&job_id), whatever execute_job
\* returned
release(active_jobs, job_id, ok) == active_jobs \ {job_id}

\* Worker::submit_job on a job that serialises: insert, execute_job, remove,
\* return the result of execute_job
submit_job(active_jobs, job_id, outcome) ==
    LET ok == ~execute_job_is_err(outcome)
    IN  [active_jobs |-> release(active_jobs \cup {job_id}, job_id, ok),
         ok |-> ok]

\* Worker::has_voice_ref: whether the file is on the remote, or an error of
\* the transport (None)
has_voice_ref(remote, hash, probe_err) ==
    IF probe_err THEN None ELSE Some(hash \in remote)

\* ensure_voice_ref, worker_voices.contains(hash): mutated form, the
\* memo is never consulted
memoised_never(worker_voices, hash) == FALSE

\* ensure_voice_ref, worker_voices.contains(hash)
memoised(worker_voices, hash) == hash \in worker_voices

RECURSIVE ensure_from(_, _, _, _, _, _)
\* the loop of ensure_voice_ref from the i-th worker on; st holds
\* uploaded_voices, the files on the remotes and the uploads made so far
ensure_from(i, ws, st, hash, probe_err, upload_err) ==
    IF i > Len(ws)
    THEN [st EXCEPT !.ok = TRUE]
    ELSE
      LET w == ws[i]
          n == w.name
      IN
        IF ~is_ready(w)
        THEN ensure_from(i + 1, ws, st, hash, probe_err, upload_err)
        ELSE
          LET worker_voices == unwrap_or(st.uploaded_voices[n], {})
              st1 == [st EXCEPT !.uploaded_voices[n] = Some(worker_voices)]
              inserted == [st1 EXCEPT !.uploaded_voices[n] =
                                          Some(worker_voices \cup {hash})]
          IN
            IF memoised(worker_voices, hash)
            THEN ensure_from(i + 1, ws, st1, hash, probe_err, upload_err)
            ELSE IF unwrap_or(has_voice_ref(st.remote[n], hash,
                                            probe_err[n]), FALSE)
            THEN ensure_from(i + 1, ws, inserted, hash, probe_err,
                             upload_err)
            ELSE IF upload_err[n]
            THEN [st1 EXCEPT !.uploads[n] = @ + 1, !.ok = FALSE]
            ELSE ensure_from(i + 1, ws,
                             [inserted EXCEPT !.uploads[n] = @ + 1,
                                              !.remote[n] = @ \cup {hash}],
                             hash, probe_err, upload_err)

\* WorkerPool::ensure_voice_ref
ensure_voice_ref(ws, uploaded_voices, remote, hash, probe_err, upload_err) ==
    ensure_from(1, ws,
                [uploaded_voices |-> uploaded_voices, remote |-> remote,
                 uploads |-> [n \in WorkerNames |-> 0], ok |-> TRUE],
                hash, probe_err, upload_err)

\* WorkerPool::new; a remote may hold voice files of an earlier run
InitPool ==
    /\ workers = [i \in 1..NumWorkers |-> Worker_new(NumWorkers + 1 - i)]
    /\ defaults = WorkerDefaults_default
    /\ pending = <<>>
    /\ in_flight = <<>>
    /\ completed = <<>>
    /\ failed = <<>>
    /\ retry_counts = <<>>
    /\ worker_stats = <<>>
    /\ tasks = {}
    /\ results = <<>>
    /\ dispatches = <<>>
    /\ failResults = <<>>
    /\ lastHandled = <<>>
    /\ ridx = 1
    /\ wrongIds = 0
    /\ sel = None
    /\ pc = "pool"
    /\ session = None
    /\ disk = NoFile
    /\ spc = "idle"
    /\ \E remote \in [WorkerNames -> SUBSET Hashes] :
          call = [op |-> "pool", next |-> 1,
                  active_jobs |-> [n \in WorkerNames |-> {}],
                  uploaded_voices |-> [n \in WorkerNames |-> None],
                  remote |-> remote, dropped |-> 0,
                  last |-> [op |-> "new"]]

\* connect_all: worker.connect() on the next worker of the pool
Connect ==
    /\ pc = "pool"
    /\ call.next <= Len(workers)
    /\ \E test_ok \in BOOLEAN, probe \in ProbeOutcomes :
          LET i == call.next
              r == connect(workers[i], test_ok, probe)
          IN  /\ workers' = [workers EXCEPT ![i] = r.worker]
              /\ call' = [call EXCEPT !.next = i + 1,
                                      !.last = [op |-> "connect", i |-> i,
                                                before |-> workers[i],
                                                ok |-> r.ok]]
    /\ UNCHANGED <<defaults, pending, in_flight, completed, failed,
                   retry_counts, worker_stats, tasks, pc, results,
                   dispatches, failResults, lastHandled, session, disk,
                   spc, ridx, wrongIds, sel>>

\* worker.submit_job(job, job_timeout) that returns
SubmitJob ==
    /\ pc = "pool"
    /\ call.next > Len(workers)
    /\ \E n \in WorkerNames, job_id \in JobIds, outcome \in SubmitOutcomes :
          LET r == submit_job(call.active_jobs[n], job_id, outcome)
          IN  call' = [call EXCEPT !.active_jobs[n] = r.active_jobs,
                                   !.last = [op |-> "submit_job", n |-> n,
                                             job_id |-> job_id,
                                             outcome |-> outcome,
                                             before |-> call.active_jobs[n],
                                             ok |-> r.ok]]
    /\ UNCHANGED <<schedVars, sessVars, pc, ridx, sel>>

\* worker.submit_job(job, job_timeout) whose future is dropped while
\* execute_job is awaited: the id has been inserted and is not removed
SubmitJobDropped ==
    /\ pc = "pool"
    /\ call.next > Len(workers)
    /\ call.dropped < MaxDropped
    /\ \E n \in WorkerNames, job_id \in JobIds :
          call' = [call EXCEPT !.active_jobs[n] = @ \cup {job_id},
                               !.dropped = @ + 1,
                               !.last = [op |-> "submit_job_dropped"]]
    /\ UNCHANGED <<schedVars, sessVars, pc, ridx, sel>>

\* pool.ensure_voice_ref(voice_path, &hash); again holds the uploads of the
\* call before this one when that call was ensure_voice_ref with the same
\* hash and returned Ok
EnsureVoiceRef ==
    /\ pc = "pool"
    /\ call.next > Len(workers)
    /\ \E hash \in Hashes, probe_err, upload_err \in [WorkerNames -> BOOLEAN] :
          LET r == ensure_voice_ref(workers, call.uploaded_voices,
                                    call.remote, hash, probe_err, upload_err)
              again == IF /\ call.last.op = "ensure_voice_ref"
                          /\ call.last.hash = hash
                          /\ call.last.ok
                       THEN Some(call.last.uploads)
                       ELSE None
          IN  call' = [call EXCEPT
                         !.uploaded_voices = r.uploaded_voices,
                         !.remote = r.remote,
                         !.last = [op |-> "ensure_voice_ref", hash |-> hash,
                                   uploads |-> r.uploads, ok |-> r.ok,
                                   uploaded_voices |-> call.uploaded_voices,
                                   remote |-> call.remote,
                                   again |-> again]]
    /\ UNCHANGED <<schedVars, sessVars, pc, ridx, sel>>

NextPool ==
    \/ Connect
    \/ SubmitJob
    \/ SubmitJobDropped
    \/ EnsureVoiceRef

SpecPool == InitPool /\ [][NextPool]_vars

\* C17: if the connection test or the status probe of a connect call fails,
\* the call returns an error and the worker, not connected before the call,
\* is not connected after it.
C17_ConnectedOnlyOnBothSuccesses ==
    (call # None /\ call.op = "pool" /\ call.last.op = "connect"
                 /\ ~call.last.before.connected /\ ~call.last.ok) =>
        ~workers[call.last.i].connected

\* C18: after submit_job has returned, with a decoded result, a transport
\* error, an expired deadline or an undecodable reply, the job's id is not
\* in the worker's active_jobs and the ids other than the job's are those
\* that were in it before the call.
C18_SubmitReleasesJob ==
    (call # None /\ call.op = "pool" /\ call.last.op = "submit_job") =>
        LET l == call.last
        IN  /\ l.job_id \notin call.active_jobs[l.n]
            /\ call.active_jobs[l.n] = l.before \ {l.job_id}

\* a submit_job that returned an error on a worker whose active_jobs held
\* the id of another job
C18_Witness ==
    /\ call # None
    /\ call.op = "pool"
    /\ call.last.op = "submit_job"
    /\ ~call.last.ok
    /\ call.last.before \ {call.last.job_id} # {}

----------------------------------------------------------------------------
(* A distributed run on a workers configuration that sets retry_attempts
   and per-worker job timeouts, with or without enqueued jobs *)

\* a job_timeout_secs override of a worker
OverrideSecs == 2 * DEFAULT_JOB_TIMEOUT_SECS

\* ready workers with or without a job_timeout_secs override
ConfiguredPools ==
    {ws \in [1..NumWorkers ->
                [name : WorkerNames, priority : {1},
                 max_concurrent_jobs : {None}, connected : {TRUE},
                 status : {Some([ready |-> TRUE])},
                 job_timeout_secs : {None, Some(OverrideSecs)}]] :
        \A i \in 1..NumWorkers : ws[i].name = NumWorkers + 1 - i}

\* the worker of the pool with the given name
get_worker(ws, name) == ws[CHOOSE i \in 1..Len(ws) : ws[i].name = name]

InitConfig ==
    /\ workers \in ConfiguredPools
    /\ defaults \in {[WorkerDefaults_default EXCEPT !.retry_attempts = n] :
                        n \in 1..MaxRetryAttempts}
    /\ pending \in {<<>>, [j \in JobIds |-> j]}
    /\ in_flight = <<>>
    /\ completed = <<>>
    /\ failed = <<>>
    /\ retry_counts = [j \in JobIds |-> 0]
    /\ worker_stats = [w \in WorkerNames |-> 0]
    /\ tasks = {}
    /\ pc = "check"
    /\ results = <<>>
    /\ dispatches = [j \in JobIds |-> 0]
    /\ failResults = [j \in JobIds |-> 0]
    /\ lastHandled = [j \in JobIds |-> None]
    /\ session = Session_new(JobChunks)
    /\ disk = FileWritten(Session_new(JobChunks))
    /\ spc = "idle"
    /\ ridx = 1
    /\ wrongIds = 0
    /\ sel = None
    /\ call = [op |-> "config", enqueued |-> Len(pending)]

SpecConfig == InitConfig /\ [][Next]_vars

\* C22: with retry_attempts = n in the pool defaults, a job that failed on
\* every attempt and is terminal has been dispatched exactly n times.
C22_BudgetFromRetryAttempts ==
    (call # None /\ call.op = "config" /\ wrongIds = 0) =>
        \A i \in 1..Len(completed) :
            LET j == completed[i].job_id
            IN  (completed[i].status # "completed"
                    /\ failResults[j] = dispatches[j]) =>
                dispatches[j] = defaults.retry_attempts

\* C23: every submission in progress on a worker runs under that worker's
\* effective job timeout, its job_timeout_secs if set and the pool default
\* otherwise.
C23_EffectiveJobTimeout ==
    (call # None /\ call.op = "config") =>
        \A t \in tasks :
            t.job_timeout =
                WorkerConfig_job_timeout(get_worker(workers, t.worker_name),
                                         defaults)

\* C29: run_to_completion with no enqueued jobs goes from its first check
\* straight to its return with an empty result list: it never is in the
\* dispatch loop, the retry loop or the wait on the channel, no job is
\* dispatched, no result is handled and the session is not touched.
C29_EmptyQueueReturnsAtOnce ==
    (call # None /\ call.op = "config" /\ call.enqueued = 0) =>
        /\ pc \in {"check", "persist", "done"}
        /\ tasks = {}
        /\ in_flight = <<>>
        /\ completed = <<>>
        /\ results = <<>>
        /\ \A j \in JobIds : dispatches[j] = 0 /\ lastHandled[j] = None
        /\ session = Session_new(JobChunks)

\* a run with no enqueued jobs that has returned
C29_Witness ==
    /\ call # None
    /\ call.op = "config"
    /\ call.enqueued = 0
    /\ pc = "done"

----------------------------------------------------------------------------
(* main.rs: one local run from create_session to cleanup_session.  call
   holds the session's temp audio directory (temp), every audio file the run
   wrote (written), whether assemble_audiobook returned Ok (assembled),
   whether cleanup_session was entered (cleanup) and the number of
   iterations of the loop of process_local spent on each chunk
   (attempts). *)

\* temp_dir.join("empty.wav"), the path recorded for a chunk without text
EmptyWav == <<"wav", -1, -1>>

InitMain ==
    /\ NoRun
    /\ sel = None
    /\ call = [op |-> "main", temp |-> {}, written |-> {},
               assembled |-> FALSE, cleanup |-> FALSE,
               attempts |-> [id \in ChunkIds |-> 0]]
    /\ pc = "start"
    /\ session = None
    /\ disk = NoFile
    /\ spc = "idle"

\* process_local, one iteration of the loop over get_next_chunk: a chunk
\* without text is marked complete, a synthesised chunk has its audio file
\* written and is marked complete, a failed one has its error stored; each
\* mark ends in save_session, which opens the file
LocalChunk ==
    /\ pc = "running"
    /\ spc = "idle"
    /\ get_next_chunk(session) # None
    /\ LET id == get_next_chunk(session)[1]
           audio_path == <<"wav", id[1], id[2]>>
       IN  \E outcome \in {"empty", "ok", "err"} :
             /\ call.attempts[id] < MaxAttempts
             /\ session' =
                  IF outcome = "empty"
                  THEN mark_chunk_complete(session, id[1], id[2], EmptyWav)
                  ELSE IF outcome = "ok"
                  THEN mark_chunk_complete(session, id[1], id[2], audio_path)
                  ELSE mark_chunk_error(session, id[1], id[2],
                                        "synthesis failed")
             /\ call' = IF outcome = "ok"
                        THEN [call EXCEPT !.temp = @ \cup {audio_path},
                                          !.written = @ \cup {audio_path},
                                          !.attempts[id] = @ + 1]
                        ELSE [call EXCEPT !.attempts[id] = @ + 1]
    /\ disk' = FileCreated
    /\ spc' = "created"
    /\ UNCHANGED <<schedVars, pc, ridx, sel>>

\* process_local returns Ok: get_next_chunk found no incomplete chunk
LocalDone ==
    /\ pc = "running"
    /\ spc = "idle"
    /\ get_next_chunk(session) = None
    /\ pc' = "assemble"
    /\ UNCHANGED <<schedVars, sessVars, ridx, sel, call>>

\* an error leaves main through a `?` before assembly: create_backend fails,
\* or save_session fails after File::create or in the middle of the write
ProcessFails ==
    /\ pc = "running"
    /\ pc' = "failed"
    /\ UNCHANGED <<schedVars, sessVars, ridx, sel, call>>

\* assemble_audiobook: Err if no chunk has audio or assemble_m4b fails; Ok
\* otherwise, and then the size of the output is read
Assemble ==
    /\ pc = "assemble"
    /\ \E ok \in BOOLEAN :
          /\ ok => \E i \in 1..Len(session.chunks) :
                      session.chunks[i].completed
          /\ pc' = IF ok THEN "assembled" ELSE "failed"
          /\ call' = [call EXCEPT !.assembled = ok]
    /\ UNCHANGED <<schedVars, sessVars, ridx, sel>>

\* cleanup_session: the session file is removed
CleanupFile ==
    /\ pc = "assembled"
    /\ disk' = NoFile
    /\ call' = [call EXCEPT !.cleanup = TRUE]
    /\ pc' = "cleanup"
    /\ UNCHANGED <<schedVars, session, spc, ridx, sel>>

\* cleanup_session: the temp directory is removed with all it holds
CleanupTemp ==
    /\ pc = "cleanup"
    /\ call' = [call EXCEPT !.temp = {}]
    /\ pc' = "done"
    /\ UNCHANGED <<schedVars, sessVars, ridx, sel>>

NextMain ==
    \/ CreateSession
    \/ LocalChunk
    \/ LocalDone
    \/ ProcessFails
    \/ SaveFlush
    \/ SaveClose
    \/ Crash
    \/ Assemble
    \/ CleanupFile
    \/ CleanupTemp

SpecMain == InitMain /\ [][NextMain]_vars

\* C25: cleanup_session is entered only after assemble_audiobook returned
\* Ok; and after a run that failed or was interrupted before that, the
\* session record is in the session file and every audio file the run wrote
\* is in the temp directory.
C25_CleanupOnlyAfterAssembly ==
    (call # None /\ call.op = "main") =>
        /\ call.cleanup => call.assembled
        /\ (pc \in {"failed", "crashed"} /\ ~call.assembled) =>
              /\ disk.kind = "full"
              /\ call.temp = call.written

----------------------------------------------------------------------------
(* coordinator/config.rs: WorkersConfig::add_worker and remove_worker on a
   configuration that starts empty.  call holds the workers of the
   configuration and the last call with the workers before it. *)

\* the names and the hosts a worker is configured with
ConfigNames == 1..(NumWorkers + 1)

ConfigHosts == 1..NumHosts

\* Vec::retain(|w| w.name != name)
retain_other(ws, name) ==
    LET Keep(w) == w.name # name
    IN  SelectSeq(ws, Keep)

\* add_worker without the retain: the worker is pushed whatever the
\* configuration holds
add_worker_push_only(ws, worker) == Append(ws, worker)

\* WorkersConfig::add_worker
add_worker(ws, worker) == Append(retain_other(ws, worker.name), worker)

\* WorkersConfig::remove_worker: the workers left and the returned flag
remove_worker(ws, name) ==
    [workers |-> retain_other(ws, name),
     ret |-> Len(retain_other(ws, name)) < Len(ws)]

\* WorkersConfig::default
InitWorkersConfig ==
    /\ NoRun
    /\ sel = None
    /\ call = [op |-> "workers_config", workers |-> <<>>,
               last |-> [op |-> "default"]]
    /\ pc = "config"
    /\ session = None
    /\ disk = NoFile
    /\ spc = "idle"

\* config.add_worker(WorkerConfig::new(name, host, ..))
AddWorker ==
    /\ pc = "config"
    /\ \E name \in ConfigNames, host \in ConfigHosts :
          LET worker == [name |-> name, host |-> host]
          IN  call' = [call EXCEPT
                         !.workers = add_worker(call.workers, worker),
                         !.last = [op |-> "add_worker", worker |-> worker,
                                   before |-> call.workers]]
    /\ UNCHANGED <<schedVars, sessVars, pc, ridx, sel>>

\* config.remove_worker(name)
RemoveWorker ==
    /\ pc = "config"
    /\ \E name \in ConfigNames :
          LET r == remove_worker(call.workers, name)
          IN  call' = [call EXCEPT
                         !.workers = r.workers,
                         !.last = [op |-> "remove_worker", name |-> name,
                                   before |-> call.workers, ret |-> r.ret]]
    /\ UNCHANGED <<schedVars, sessVars, pc, ridx, sel>>

NextWorkersConfig ==
    \/ AddWorker
    \/ RemoveWorker

SpecWorkersConfig == InitWorkersConfig /\ [][NextWorkersConfig]_vars

\* C30: after any sequence of add_worker and remove_worker on a
\* configuration that was empty, the names of the workers are pairwise
\* distinct; add_worker leaves the given worker in the configuration, with
\* the same number of workers when the name was there before and one more
\* otherwise; remove_worker returns true exactly when a worker of that name
\* was there, and no worker of that name is there afterwards.
C30_WorkerNamesDistinct ==
    (call # None /\ call.op = "workers_config") =>
        LET ws == call.workers
            l == call.last
            Has(s, name) == \E i \in 1..Len(s) : s[i].name = name
        IN  /\ \A i, k \in 1..Len(ws) : ws[i].name = ws[k].name => i = k
            /\ l.op = "add_worker" =>
                  /\ \E i \in 1..Len(ws) : ws[i] = l.worker
                  /\ Len(ws) = IF Has(l.before, l.worker.name)
                               THEN Len(l.before)
                               ELSE Len(l.before) + 1
            /\ l.op = "remove_worker" =>
                  /\ l.ret <=> Has(l.before, l.name)
                  /\ ~Has(ws, l.name)

\* add_worker with the name of a worker that was configured with another
\* host, in a configuration of more than one worker
C30_Witness ==
    /\ call # None
    /\ call.op = "workers_config"
    /\ call.last.op = "add_worker"
    /\ Len(call.last.before) > 1
    /\ \E i \in 1..Len(call.last.before) :
          /\ call.last.before[i].name = call.last.worker.name
          /\ call.last.before[i].host # call.last.worker.host

----------------------------------------------------------------------------
(* main.rs: two runs of the program on the same book, their steps
   interleaved.  call holds the clock in seconds, the sessions directory in
   the order read_dir lists it, and for each run its --no-resume flag, its
   position, its session_id and the session file and temp directory it
   writes. *)

Runs == {1, 2}

\* create_session, the session_id: the hash of the book, the same for both
\* runs, and Utc::now() formatted "%Y%m%d_%H%M%S", the time to the second
new_session_id(now) == <<"hash", now>>

\* get_sessions_dir().join(format!("{}.json", session_id))
session_file(session_id) == <<"sessions", session_id>>

\* get_data_dir().join("temp").join(session_id)
get_temp_dir(session_id) == <<"temp", session_id>>

InitRuns ==
    /\ NoRun
    /\ sel = None
    /\ pc = "runs"
    /\ session = None
    /\ disk = NoFile
    /\ spc = "idle"
    /\ \E flags \in [Runs -> BOOLEAN] :
          call = [op |-> "runs", clock |-> 1, dir |-> <<>>,
                  run |-> [r \in Runs |->
                             [pc |-> "find", no_resume |-> flags[r],
                              session_id |-> None, file |-> None,
                              temp |-> None]]]

\* a second passes
Tick ==
    /\ pc = "runs"
    /\ call.clock < MaxTime
    /\ call' = [call EXCEPT !.clock = @ + 1]
    /\ UNCHANGED <<schedVars, sessVars, pc, ridx, sel>>

\* main, "Check for existing session": find_session_for_book unless
\* --no-resume was given
FindSession ==
    /\ pc = "runs"
    /\ \E r \in Runs :
          /\ call.run[r].pc = "find"
          /\ LET found == IF call.run[r].no_resume THEN None
                          ELSE find_session_for_book(call.dir)
             IN  call' =
                   IF found = None
                   THEN [call EXCEPT !.run[r].pc = "create"]
                   ELSE [call EXCEPT
                           !.run[r].pc = "temp",
                           !.run[r].session_id =
                               Some(call.dir[found[1]].session_id)]
    /\ UNCHANGED <<schedVars, sessVars, pc, ridx, sel>>

\* main, "Create new session if needed": create_session names the session
\* after the clock and saves it; File::create replaces a file of that name
CreateRunSession ==
    /\ pc = "runs"
    /\ \E r \in Runs :
          /\ call.run[r].pc = "create"
          /\ LET id == new_session_id(call.clock)
                 rec == [kind |-> "record", same_book |-> TRUE,
                         completed |-> FALSE, updated_at |-> call.clock,
                         session_id |-> id]
                 at == {i \in 1..Len(call.dir) : call.dir[i].session_id = id}
             IN  call' = [call EXCEPT
                            !.run[r].pc = "temp",
                            !.run[r].session_id = Some(id),
                            !.run[r].file = Some(session_file(id)),
                            !.dir = IF at = {} THEN Append(@, rec)
                                    ELSE [i \in 1..Len(@) |->
                                            IF i \in at THEN rec ELSE @[i]]]
    /\ UNCHANGED <<schedVars, sessVars, pc, ridx, sel>>

\* main, get_temp_dir(&session.session_id), and the processing that
\* follows: audio files go to the temp directory, every result is saved to
\* the session file
ProcessRun ==
    /\ pc = "runs"
    /\ \E r \in Runs :
          /\ call.run[r].pc = "temp"
          /\ LET id == call.run[r].session_id[1]
             IN  call' = [call EXCEPT
                            !.run[r].pc = "processing",
                            !.run[r].file = Some(session_file(id)),
                            !.run[r].temp = Some(get_temp_dir(id))]
    /\ UNCHANGED <<schedVars, sessVars, pc, ridx, sel>>

NextRuns ==
    \/ Tick
    \/ FindSession
    \/ CreateRunSession
    \/ ProcessRun

SpecRuns == InitRuns /\ [][NextRuns]_vars

\* C24: two runs on the same book have distinct session_ids, and the
\* session file and the temp directory that one writes are not those the
\* other writes.
C24_RunsDoNotShareSession ==
    (call # None /\ call.op = "runs") =>
        \A r, q \in Runs :
            r # q =>
                /\ (call.run[r].session_id # None
                        /\ call.run[q].session_id # None) =>
                      call.run[r].session_id # call.run[q].session_id
                /\ (call.run[r].file # None /\ call.run[q].file # None) =>
                      call.run[r].file # call.run[q].file
                /\ (call.run[r].temp # None /\ call.run[q].temp # None) =>
                      call.run[r].temp # call.run[q].temp

----------------------------------------------------------------------------
(* coordinator/scheduler.rs: JobScheduler::progress, as on_progress
   receives it after every handled result *)

\* SchedulerProgress.total_jobs
total_jobs(p, inf, c, f) == Len(p) + Len(inf) + Len(c) + Len(f)

\* the places among pending, in_flight, failed and completed that hold job j
job_places(j) ==
    Cardinality({i \in 1..Len(pending) : pending[i] = j})
    + Cardinality({i \in 1..Len(in_flight) : in_flight[i].job = j})
    + Cardinality({i \in 1..Len(failed) : failed[i] = j})
    + Cardinality({i \in 1..Len(completed) : completed[i].job_id = j})

\* C37: job conservation.  In every state of the dispatcher loop each
\* enqueued job is in exactly one of pending, in_flight, failed or
\* completed (as a result), so the total_jobs value of every progress
\* report equals the number of jobs enqueued.
C37_JobConservation ==
    pc \in {"check", "dispatch", "retry", "wait"} =>
        /\ \A j \in JobIds : job_places(j) = 1
        /\ total_jobs(pending, in_flight, completed, failed) = NumJobs

\* a progress report is due after a result was handled: one job has its
\* terminal result, the other one awaits its retry
C37_Witness ==
    /\ pc = "check"
    /\ Len(completed) = 1
    /\ Len(failed) = 1

----------------------------------------------------------------------------
(* coordinator/scheduler.rs: the retry loop of run_to_completion *)

\* C32 as stated: a job appended to failed after a failed or timeout result
\* that leaves retries available is moved to the front of pending during
\* the next iteration of the dispatcher loop; so when the retry loop of an
\* iteration is over and the dispatcher waits for a result, no job is left
\* in failed.
C32_PromotedNextIteration == pc = "wait" => failed = <<>>

\* C32 amended: a job appended to failed is moved to the front of pending
\* during the next iteration of the dispatcher loop whose retry loop finds
\* a worker available, and it stays in failed through the iterations whose
\* retry loop finds none: a step of the retry loop with a job in failed
\* and a worker available moves the latest failed job to the front of
\* pending, and the loop hands over to the wait with jobs in failed only
\* when no worker is available.
C32_PromotedWhenWorkerAvailable ==
    [][/\ (pc = "retry" /\ failed # <<>> /\ available_worker # None) =>
             /\ pending' = <<failed[Len(failed)]>> \o pending
             /\ failed' = SubSeq(failed, 1, Len(failed) - 1)
             /\ pc' = "retry"
       /\ (pc = "retry" /\ pc' = "wait" /\ failed # <<>>) =>
             /\ available_worker = None
             /\ failed' = failed
             /\ pending' = pending]_vars

\* a job that failed once is back at the front of pending and the retry
\* loop has emptied failed
C32_Witness ==
    /\ pc = "retry"
    /\ failed = <<>>
    /\ pending # <<>>
    /\ retry_counts[Head(pending)] > 0

----------------------------------------------------------------------------
(* A distributed run with one job more than the pool can hold in flight,
   so that several jobs can wait in failed at the same time *)

\* the jobs of this run
RetryJobs == 1..(NumJobs + 1)

InitRetry ==
    /\ workers \in RunPools
    /\ \E i \in 1..NumWorkers : is_ready(workers[i])
    /\ \A i \in 1..NumWorkers : workers[i].priority = 1
    /\ defaults = WorkerDefaults_default
    /\ pending = [j \in RetryJobs |-> j]
    /\ in_flight = <<>>
    /\ completed = <<>>
    /\ failed = <<>>
    /\ retry_counts = [j \in RetryJobs |-> 0]
    /\ worker_stats = [w \in WorkerNames |-> 0]
    /\ tasks = {}
    /\ pc = "check"
    /\ results = <<>>
    /\ dispatches = [j \in RetryJobs |-> 0]
    /\ failResults = [j \in RetryJobs |-> 0]
    /\ lastHandled = [j \in RetryJobs |-> None]
    /\ session = Session_new([j \in RetryJobs |->
                                ChunkStatus_new(JobChapter(j), JobChunk(j))])
    /\ disk = FileWritten(session)
    /\ spc = "idle"
    /\ ridx = 1
    /\ wrongIds = MaxWrongIds
    /\ sel = None
    /\ call = None

SpecRetry == InitRetry /\ [][Next]_vars

\* C40: when several jobs wait in failed and are promoted together, they
\* enter pending in the order in which they failed (the earliest failure
\* first), ahead of any job already in pending: a step of the retry loop
\* keeps the sequence failed followed by pending as it is, and a retry loop
\* that found a worker available ends with no job left in failed.
C40_PromotedInFailureOrder ==
    [][/\ (pc = "retry" /\ pc' = "retry") =>
             failed' \o pending' = failed \o pending
       /\ (pc = "retry" /\ pc' = "wait" /\ available_worker # None) =>
             failed = <<>>]_vars

\* two jobs that had failed were promoted by one retry loop
C40_Witness ==
    /\ pc = "retry"
    /\ failed = <<>>
    /\ Len(pending) >= 2
    /\ retry_counts[pending[1]] > 0
    /\ retry_counts[pending[2]] > 0
    /\ available_worker # None

----------------------------------------------------------------------------
(* The distributed run under fair scheduling: the dispatcher and the driver
   keep taking steps, and a spawned submission that has a result to send
   gets it received (select! takes the ready recv branch before the sleep
   of the following iterations can win for ever) *)

SpecFair == Init /\ [][Next]_vars /\ WF_vars(Next) /\ SF_vars(Recv)

\* C38: termination.  With at least one ready worker and every spawned
\* submission eventually delivering some TtsResult, whatever its status and
\* whatever job_id the worker wrote in it, run_to_completion eventually
\* returns and no job stays in in_flight for ever.
C38_RunReturns == <>(pc \in {"persist", "done"} /\ in_flight = <<>>)

----------------------------------------------------------------------------
(* run_to_completion on any pool, also one in which no worker is ready *)

InitAnyPool ==
    /\ workers \in RunPools
    /\ defaults = WorkerDefaults_default
    /\ pending = [j \in JobIds |-> j]
    /\ in_flight = <<>>
    /\ completed = <<>>
    /\ failed = <<>>
    /\ retry_counts = [j \in JobIds |-> 0]
    /\ worker_stats = [w \in WorkerNames |-> 0]
    /\ tasks = {}
    /\ pc = "check"
    /\ results = <<>>
    /\ dispatches = [j \in JobIds |-> 0]
    /\ failResults = [j \in JobIds |-> 0]
    /\ lastHandled = [j \in JobIds |-> None]
    /\ session = Session_new(JobChunks)
    /\ disk = FileWritten(Session_new(JobChunks))
    /\ spc = "idle"
    /\ ridx = 1
    /\ wrongIds = 0
    /\ sel = None
    /\ call = None

SpecAnyPool == InitAnyPool /\ [][Next]_vars

\* the positions of the dispatcher inside the loop of run_to_completion
InLoop(p) == p \in {"check", "dispatch", "retry", "wait"}

\* C36 as stated: while pending is non-empty and no worker is eligible, the
\* dispatcher loop keeps polling without dispatching: pending, in_flight,
\* failed and completed stay unchanged and run_to_completion does not
\* return.
C36_NothingChangesWithoutWorker ==
    [][(InLoop(pc) /\ pending # <<>> /\ available_worker = None) =>
          /\ UNCHANGED <<pending, in_flight, failed, completed>>
          /\ InLoop(pc')]_vars

\* C36 amended: while pending is non-empty and no worker is eligible, the
\* loop keeps polling without dispatching: pending stays unchanged and
\* run_to_completion does not return; in_flight, failed and completed are
\* changed only by the handling of a received result, which takes one job
\* out of in_flight, and they stay unchanged while nothing is in flight.
C36_PollsWithoutDispatching ==
    [][(InLoop(pc) /\ pending # <<>> /\ available_worker = None) =>
          /\ UNCHANGED pending
          /\ InLoop(pc')
          /\ tasks' \subseteq tasks
          /\ \/ UNCHANGED <<in_flight, failed, completed>>
             \/ /\ pc = "wait"
                /\ in_flight # <<>>
                /\ Len(in_flight') = Len(in_flight) - 1
                /\ Len(failed') + Len(completed')
                     = Len(failed) + Len(completed) + 1]_vars

\* no worker is ready, every job is still in pending and the dispatcher
\* went through its dispatch and retry loops to the wait
C36_Witness ==
    /\ pc = "wait"
    /\ \A i \in 1..Len(workers) : ~is_ready(workers[i])
    /\ pending = [j \in JobIds |-> j]
    /\ in_flight = <<>>

----------------------------------------------------------------------------
(* main.rs: the loop of process_local *)

\* C39: the local processing loop terminates for every session: each chunk
\* is attempted in at most one iteration of the loop, and a chunk whose
\* synthesis fails on all its attempts is recorded with mark_chunk_error
\* and the loop moves on to the following chunks.
C39_EachChunkInOneIteration ==
    (call # None /\ call.op = "main") =>
        \A id \in ChunkIds : call.attempts[id] <= 1

----------------------------------------------------------------------------
(* coordinator/scheduler.rs: handle_result step by step, with the pool
   lock, the audio download and the on_result callback.  call holds: lock,
   whether the dispatcher holds the pool lock; remote, the remote operation
   the dispatcher is waiting for; cur, the completed result whose audio is
   being fetched; on_results, the results on_result was invoked with, in
   the order of the invocations; last, the result the dispatcher received
   last; terminal, the terminal results (completed, or failed or timeout
   with the retry budget exhausted) in the order the dispatcher received
   them; download_failed, the jobs whose audio download returned Err. *)

\* self.in_flight.iter().position(|j| j.job.job_id == result.job_id)
position(inf, job_id) ==
    LET idxs == {i \in 1..Len(inf) : inf[i].job = job_id}
    IN  IF idxs = {} THEN None
        ELSE Some(CHOOSE i \in idxs : \A k \in idxs : i <= k)

\* on_result invoked before the in_flight entry is looked up
on_result_called_unmatched(matched, status, retry_count) ==
    status = "completed" \/ ~should_retry(retry_count)

\* on_result invoked for every result that matched an entry
on_result_called_retried(matched, status, retry_count) == matched

\* handle_result: whether on_result(&result) is reached; retry_count is the
\* incremented count of the job
on_result_called(matched, status, retry_count) ==
    matched /\ (status = "completed" \/ ~should_retry(retry_count))

\* what the claim calls a terminal result
is_terminal(result, inf, rc) ==
    /\ \E i \in 1..Len(inf) : inf[i].job = result.job_id
    /\ \/ result.status = "completed"
       \/ rc[result.job_id] + 1 >= max_retries

InitHandle ==
    /\ workers \in RunPools
    /\ \E i \in 1..NumWorkers : is_ready(workers[i])
    /\ \A i \in 1..NumWorkers : workers[i].priority = 1
    /\ defaults = WorkerDefaults_default
    /\ pending = [j \in JobIds |-> j]
    /\ in_flight = <<>>
    /\ completed = <<>>
    /\ failed = <<>>
    /\ retry_counts = [j \in JobIds |-> 0]
    /\ worker_stats = [w \in WorkerNames |-> 0]
    /\ tasks = {}
    /\ pc = "check"
    /\ results = <<>>
    /\ dispatches = [j \in JobIds |-> 0]
    /\ failResults = [j \in JobIds |-> 0]
    /\ lastHandled = [j \in JobIds |-> None]
    /\ session = Session_new(JobChunks)
    /\ disk = FileWritten(Session_new(JobChunks))
    /\ spc = "idle"
    /\ ridx = 1
    /\ wrongIds = 0
    /\ sel = None
    /\ call = [op |-> "handle", lock |-> FALSE, remote |-> None,
               cur |-> None, on_results |-> <<>>, last |-> None,
               terminal |-> <<>>, download_failed |-> {}]

\* select!, rx.recv() and handle_result up to its return or, for a
\* completed result that names an audio file, up to the download: the
\* entry is removed, the worker's statistics are updated, the pool lock is
\* taken and worker.download_audio is awaited with the lock held
HandleRecv ==
    /\ pc = "wait"
    /\ \E t \in tasks : \E result \in Replies(t, ReplyJobIds(t)) :
       \E has_audio_path \in BOOLEAN :
          LET idx == position(in_flight, result.job_id)
              received == IF is_terminal(result, in_flight, retry_counts)
                          THEN Append(call.terminal, result)
                          ELSE call.terminal
          IN  /\ wrongIds' = IF result.job_id = t.job THEN wrongIds
                             ELSE wrongIds + 1
              /\ tasks' = tasks \ {t}
              /\ IF idx # None /\ result.status = "completed"
                    /\ has_audio_path
                 THEN /\ in_flight' = RemoveAt(in_flight, idx[1])
                      /\ lastHandled' =
                           [lastHandled EXCEPT ![result.job_id] = result.error]
                      /\ worker_stats' =
                           [worker_stats EXCEPT ![t.worker_name] = @ + 1]
                      /\ UNCHANGED <<completed, failed, retry_counts,
                                     failResults>>
                      /\ pc' = "download"
                      /\ call' =
                           [call EXCEPT
                              !.last = Some(result),
                              !.terminal = received,
                              !.lock = TRUE,
                              !.remote = Some("download_audio"),
                              !.cur = Some([worker_name |-> t.worker_name,
                                            result |-> result])]
                 ELSE /\ handle_result(t.worker_name, result)
                      /\ pc' = "check"
                      /\ call' =
                           [call EXCEPT
                              !.last = Some(result),
                              !.terminal = received,
                              !.on_results =
                                 IF on_result_called(
                                        idx # None, result.status,
                                        retry_counts[
                                          IF idx # None THEN result.job_id
                                          ELSE t.job] + 1)
                                 THEN Append(@, result) ELSE @]
    /\ UNCHANGED <<workers, defaults, pending, results, dispatches,
                   session, disk, spc, ridx, sel>>

\* worker.download_audio returns, Ok or Err (an Err is logged); the lock of
\* the download block is released, the lock of the cleanup block is taken
\* and worker.cleanup_audio is awaited with it held
DownloadDone ==
    /\ pc = "download"
    /\ \E ok \in BOOLEAN :
          call' = [call EXCEPT
                     !.remote = Some("cleanup_audio"),
                     !.download_failed =
                        IF ok THEN @ ELSE @ \cup {call.cur[1].result.job_id}]
    /\ pc' = "cleanup"
    /\ UNCHANGED <<schedVars, sessVars, ridx, sel>>

\* worker.cleanup_audio returns and its result is dropped; the lock is
\* released, on_result is invoked and the result is pushed to completed
CleanupDone ==
    /\ pc = "cleanup"
    /\ LET result == call.cur[1].result
       IN  /\ completed' = Append(completed, result)
           /\ call' = [call EXCEPT
                         !.lock = FALSE, !.remote = None, !.cur = None,
                         !.on_results =
                            IF on_result_called(TRUE, result.status, 0)
                            THEN Append(@, result) ELSE @]
    /\ pc' = "check"
    /\ UNCHANGED <<workers, defaults, pending, in_flight, failed,
                   retry_counts, worker_stats, tasks, results, dispatches,
                   failResults, lastHandled, wrongIds, sessVars, ridx, sel>>

NextHandle ==
    \/ HandleRecv
    \/ DownloadDone
    \/ CleanupDone
    \/ CheckDone
    \/ CheckContinue
    \/ Dispatch
    \/ DispatchBreak
    \/ RetryPromote
    \/ RetryBreak
    \/ PollTimeout
    \/ RecordResult
    \/ SaveFlush
    \/ SaveClose
    \/ RecordDone

SpecHandle == InitHandle /\ [][NextHandle]_vars

\* C31: on_result is invoked exactly once for each terminal result (a
\* completed result, or a failed or timeout result that exhausts the retry
\* budget), never for a failed or timeout result whose job will be retried,
\* and the invocations happen one at a time in the order in which the
\* dispatcher receives the results: the results on_result was invoked with
\* are the terminal results received, in the order of their reception, less
\* the one whose audio is still being fetched.
C31_OnResultOncePerTerminal ==
    (call # None /\ call.op = "handle") =>
        call.on_results =
            IF pc \in {"download", "cleanup"}
            THEN SubSeq(call.terminal, 1, Len(call.terminal) - 1)
            ELSE call.terminal

\* on_result was invoked for a completed result and for a failed one that
\* exhausted the retries of its job
C31_Witness ==
    /\ call # None /\ call.op = "handle"
    /\ Len(call.on_results) = 2
    /\ call.on_results[1].status # "completed"
    /\ call.on_results[2].status = "completed"
    /\ \E j \in JobIds : retry_counts[j] = max_retries

\* C33: the pool-wide lock is never held while a remote operation (job
\* submission, audio download, remote file removal) is in progress: the
\* scheduler takes it only to pick a worker or read its configuration and
\* releases it before any network call starts.
C33_LockFreeDuringRemote ==
    (call # None /\ call.op = "handle") =>
        ~(call.lock /\ call.remote # None)

\* C34: a result whose job_id matches no entry of the in_flight list (for
\* example a duplicate result) is dropped: pending, in_flight, failed,
\* completed, retry_counts and the per-worker statistics are unchanged and
\* on_result is not invoked.
C34_UnmatchedResultDropped ==
    [][(/\ call # None /\ call.op = "handle"
        /\ tasks' # tasks /\ tasks' \subseteq tasks
        /\ \A i \in 1..Len(in_flight) :
              in_flight[i].job # call'.last[1].job_id) =>
          /\ UNCHANGED <<pending, in_flight, failed, completed,
                         retry_counts, worker_stats>>
          /\ call'.on_results = call.on_results
          /\ pc' = "check"]_vars

\* the result received last was the second one for a job that already had
\* its terminal result
C34_Witness ==
    /\ call # None /\ call.op = "handle"
    /\ pc = "check"
    /\ call.last # None
    /\ \E i \in 1..Len(completed) :
          /\ completed[i].job_id = call.last[1].job_id
          /\ completed[i] # call.last[1]

\* C35: when a worker reports status=completed for a job and the audio
\* download that follows fails, the job is not retried: its result is
\* appended to completed with status completed, on_result is invoked for it
\* and the session entry of the chunk is marked complete.
C35_DownloadFailureStillCompletes ==
    (call # None /\ call.op = "handle") =>
        \A j \in call.download_failed :
            /\ \A i \in 1..Len(pending) : pending[i] # j
            /\ \A i \in 1..Len(in_flight) : in_flight[i].job # j
            /\ \A i \in 1..Len(failed) : failed[i] # j
            /\ retry_counts[j] < max_retries
            /\ pc # "cleanup" =>
                  LET done == results \o completed
                  IN  \E i \in 1..Len(done) :
                         /\ done[i].job_id = j
                         /\ done[i].status = "completed"
                         /\ \E k \in 1..Len(call.on_results) :
                               call.on_results[k] = done[i]
            /\ pc = "done" =>
                  \E i \in 1..Len(session.chunks) :
                     /\ session.chunks[i].chapter_id = JobChapter(j)
                     /\ session.chunks[i].chunk_id = JobChunk(j)
                     /\ session.chunks[i].completed

\* the run is over and the audio of a completed job could not be fetched
C35_Witness ==
    /\ call # None /\ call.op = "handle"
    /\ pc = "done"
    /\ call.download_failed # {}

====
